---- MODULE Spec2Model ----
(***************************************************************************)
(* Query-understanding and ranking engine of the acum-h AI service.        *)
(*                                                                         *)
(*   Spec         AdvancedAIEngine.process_query turns run one after the   *)
(*                other (src/ai_advanced_engine.py): intent analysis,      *)
(*                conversation memory, result cache, retrieval.            *)
(*   SpecMemory   two request threads inside ConversationMemory.add_message*)
(*                on one key, at the granularity of attribute loads and    *)
(*                stores (src/ai_advanced_engine.py:284-292).              *)
(*   SpecCatalog  EnhancedAIRecommenderBackendSimple: refresh_data running *)
(*                beside a search (src/ai_recommender_backend_simple.py)   *)
(*                and the /search endpoint (src/ai_chat_api_simple.py).    *)
(*                                                                         *)
(* Text is modelled as a sequence of words (lower-case ones in the engine, *)
(* where the source lower-cases the query first).  A regex or             *)
(* substring test for a keyword is modelled as membership of that keyword  *)
(* in the words of the text; the vocabulary below is chosen so that no     *)
(* keyword of the source is a proper substring of a modelled word.         *)
(***************************************************************************)
EXTENDS Integers, Sequences, FiniteSets, TLC

VARIABLES
    \* ---- AdvancedAIEngine -------------------------------------------------
    conversations,        \* ConversationMemory.conversations: key -> context
    redis_client,         \* AdvancedAIEngine.redis_client is not None
    redis_store,          \* the Redis keyspace: set of [key, data, expireAt]
    performance_metrics,  \* AdvancedAIEngine.performance_metrics
    clock,                \* wall clock, seconds
    turnCount,            \* number of process_query calls made so far
    lastTurn,             \* record of the last process_query call
    prevTurn,             \* record of the call before it
    added,                \* key -> every message handed to add_message, in order
    \* ---- ConversationMemory under concurrent request threads ---------------
    mem_created,          \* the key is in ConversationMemory.conversations
    mem_history,          \* the list bound to context.conversation_history
    pc,                   \* thread -> the statement of add_message it is at
    ops_done,             \* thread -> number of add_message calls it completed
    stale,                \* thread -> the list it loaded is no longer the bound one
    sliced,               \* thread -> the slice it computed and has not stored yet
    observed,             \* what the last reader of conversation_history saw
    \* ---- EnhancedAIRecommenderBackendSimple -------------------------------
    embedding_model,      \* ML_AVAILABLE and self.embedding_model
    data_cache,           \* data_cache['restaurants'], data_cache['events']
    embeddings_cache,     \* embeddings_cache: type -> matrix, one row per item
    refresh,              \* the refresh_data call in progress, or the last one
    search,               \* the search request in progress
    last_search,          \* what the last search request returned, until the next arrives
    searches_done,        \* number of search requests that returned
    \* ---- the intent classifiers, applied to one query ----------------------
    cls_query,            \* the query handed to the classifiers
    cls_result,           \* the intent each classifier returned, or "pending"
    \* ---- the query normalisers, applied to one string ----------------------
    norm_input,           \* the string handed to a normaliser
    norm_fn,              \* the normaliser applied to it, "none" before
    norm_out,             \* its results: of the input, of that result, and so on
    \* ---- POST /chat of the three API modules ------------------------------
    chat_body,            \* the JSON body of the request, "none" when absent
    chat_ready,           \* the module's recommender object is not None
    chat_api,             \* the module that served the request, "none" before
    chat_status,          \* the HTTP status of the answer, 0 before
    chat_invoked,         \* the recommender was called with the query
    \* ---- OptimizedAIRecommender: the response cache ------------------------
    opt_redis,            \* self.redis_client is not None
    opt_store,            \* the Redis keys "ai_response:*": {[key, value, expires]}
    response_cache,       \* self.response_cache: key -> response, "None" if absent
    opt_now,              \* seconds since the recommender was constructed
    opt_saved,            \* key -> time of the last set_cached_response, -1 if none
    opt_got,              \* the last get_cached_response: key, result, time
    \* ---- /api/reset beside process_query turns on one key -----------------
    reset_context,        \* the context stored under the key, and objects made
    reset_turns,          \* per request thread: position in its turn, the
                          \* context object it holds, resets done when it began
    resets_done,          \* number of completed reset_conversation calls
    \* ---- SmartChatbot: the periodic refresh of get_chat_response ----------
    bot_now,              \* datetime.now(), in seconds since construction
    bot_ticks,            \* number of times the clock has been advanced
    last_refresh,         \* self.last_refresh, -1 while the attribute is unset
    bot_call,             \* the last get_chat_response: when, last_refresh as
                          \* it found it, whether it called refresh_data
    \* ---- AIRecommender.find_matches ---------------------------------------
    fm_query,             \* the normalised dish query, a sequence of words
    fm_candidates,        \* what collection.query returned, nearest first
    fm_variant,           \* the class whose find_matches ran, "none" before
    fm_matches            \* the list find_matches returned

engineVars == <<conversations, redis_client, redis_store, performance_metrics,
                clock, turnCount, lastTurn, prevTurn, added>>

memoryVars == <<mem_created, mem_history, pc, ops_done, stale, sliced, observed>>

catalogVars == <<embedding_model, data_cache, embeddings_cache, refresh, search,
                 last_search, searches_done>>

classifyVars == <<cls_query, cls_result>>

normVars == <<norm_input, norm_fn, norm_out>>

chatVars == <<chat_body, chat_ready, chat_api, chat_status, chat_invoked>>

responseVars == <<opt_redis, opt_store, response_cache, opt_now, opt_saved, opt_got>>

resetVars == <<reset_context, reset_turns, resets_done>>

botVars == <<bot_now, bot_ticks, last_refresh, bot_call>>

matchVars == <<fm_query, fm_candidates, fm_variant, fm_matches>>

serviceVars == <<chatVars, responseVars, resetVars, botVars, matchVars>>

textVars == <<classifyVars, normVars, serviceVars>>

vars == <<engineVars, memoryVars, catalogVars, textVars>>

-----------------------------------------------------------------------------
(* Bounds of the model *)

MaxTurns == 2
\* ConversationMemory.max_history (50 by default), shrunk so that truncation happens
max_history == 2
ClockStep == 1800
MaxClock == 3600
\* add_message calls made by each request thread (a turn makes two)
OpsPerThread == 2
\* refresh_data calls made, the constructor's included
MaxGen == 2
\* search requests served
MaxSearches == 1
\* EnhancedAIRecommenderBackendSimple.max_results (10 by default), shrunk to
\* the size of the modelled catalog
max_results == 2
\* words in a query handed to the classifiers
MaxQueryWords == 2
\* process_query turns a request thread makes beside the resets
TurnsPerThread == 1
\* reset_conversation calls
MaxResets == 1
\* times the clock of the chatbot is advanced
MaxBotTicks == 4
\* documents collection.query returns to find_matches
MaxCandidates == 3
\* characters in a string handed to a normaliser
MaxChars == 3
\* times a normaliser is applied in a row
MaxApplications == 2

(* Program constants *)

\* the TTL _save_to_cache hands to setex
CACHE_TTL == 3600
\* the default ttl of OptimizedAIRecommender.set_cached_response, in seconds
RESPONSE_TTL == 3600
\* the age in seconds beyond which get_chat_response refreshes the catalog
REFRESH_AFTER == 300
\* seconds in a day: timedelta.seconds is the remainder of the duration by it
DAY_SECONDS == 24 * 60 * 60
\* the default threshold of find_matches, in hundredths
MATCH_THRESHOLD == 40
\* the longest query POST /chat of ai_chat_api_simple.py accepts
MAX_QUERY_LENGTH == 1000
\* the similarity a row must exceed in semantic_search, in hundredths
SEMANTIC_THRESHOLD == 30
\* BackendConfig.SIMILARITY_THRESHOLD (0.3 by default), in hundredths
SIMILARITY_THRESHOLD == 30

-----------------------------------------------------------------------------
(* Generic helpers *)

SeqToSet(s) == {s[i] : i \in DOMAIN s}

\* Python s[-n:] for n >= 1
LastN(s, n) == IF Len(s) <= n THEN s ELSE SubSeq(s, Len(s) - n + 1, Len(s))

\* Python s[:n]
FirstN(s, n) == IF Len(s) <= n THEN s ELSE SubSeq(s, 1, n)

-----------------------------------------------------------------------------
(* Inputs *)

UserIds == {<<"u">>}
SessionIds == {<<"s">>, <<"t">>}

\* "Salut!", "restaurant italian", "concert tonight"
Queries == {<<"salut">>, <<"restaurant", "italian">>, <<"concert", "tonight">>}

\* which component raises during the turn
Faults == {"none", "classify", "retrieve", "generate", "cache_get", "cache_set"}
CacheFaults == {"cache_get", "cache_set"}

\* The catalog service's answers to GET /api/companies and GET /api/events
BackendCompanies ==
    << [Id |-> 1, category |-> "italian",  hasMenu |-> TRUE],
       [Id |-> 2, category |-> "romanian", hasMenu |-> FALSE],
       [Id |-> 3, category |-> "italian",  hasMenu |-> FALSE] >>

BackendEvents ==
    << [Id |-> 11, title |-> <<"rock", "concert">>],
       [Id |-> 12, title |-> <<"food", "fair">>] >>

-----------------------------------------------------------------------------
(* AdvancedNLPProcessor *)

\* One regex of intent_patterns: the keywords of its alternation that occur in
\* the modelled vocabulary, and whether the alternation has a branch that
\* matches the empty string ("$$" in r"(how much|pricing|affordable|$$)"
\* is two end-of-string anchors, which re.search satisfies on every input).
Rule(ws) == [words |-> ws, always |-> FALSE]
RuleEmptyMatch(ws) == [words |-> ws, always |-> TRUE]

\* self.intent_patterns, in dict insertion order
IntentOrder ==
    << "search_restaurant", "search_event", "location_query", "price_query",
       "hours_query", "reservation", "review_query", "comparison" >>

intent_patterns ==
    [ search_restaurant |->
        << Rule({}), Rule({"restaurant", "food"}), Rule({"lunch", "dinner"}),
           Rule({"italian"}), Rule({}), Rule({"restaurant"}), Rule({}), Rule({}) >>,
      search_event |->
        << Rule({"concert", "festival"}), Rule({}), Rule({"tonight", "weekend"}),
           Rule({"music"}), Rule({"concert", "festival"}), Rule({}),
           Rule({"weekend"}), Rule({}) >>,
      location_query |->
        << Rule({"where"}), Rule({"near"}), Rule({}), Rule({"unde"}), Rule({}), Rule({}) >>,
      price_query |->
        << Rule({"cheap", "cost"}), RuleEmptyMatch({"pricing"}), Rule({"cost"}), Rule({}) >>,
      hours_query |->
        << Rule({"open"}), Rule({}), Rule({"program"}), Rule({}) >>,
      reservation |->
        << Rule({"table"}), Rule({}), Rule({}), Rule({}) >>,
      review_query |->
        << Rule({"review"}), Rule({"good"}), Rule({}), Rule({}) >>,
      comparison |->
        << Rule({"compare"}), Rule({}) >> ]

\* self.entity_patterns, restricted to the modelled vocabulary
entity_patterns ==
    [ cuisine          |-> <<"italian", "chinese">>,
      price_range      |-> <<"cheap">>,
      time_expressions |-> <<"tonight", "weekend", "lunch", "dinner">>,
      event_types      |-> <<"concert", "festival", "music">> ]

\* re.search(pattern, query)
RuleMatches(rule, query) == rule.always \/ (rule.words \cap SeqToSet(query) # {})

\* the keyword alternatives of the rule alone, without the empty match
KeywordMatches(rule, query) == rule.words \cap SeqToSet(query) # {}

\* for pattern in patterns: if re.search(pattern, query): score += 1
CountMatches(intent, query) ==
    Cardinality({i \in DOMAIN intent_patterns[intent] :
                    RuleMatches(intent_patterns[intent][i], query)})

\* the queries handed to the intent classifiers alone
ClassifierVocabulary == {"restaurant", "italian", "concert", "tonight", "salut"}

ClassifierQueries ==
    UNION {[1..n -> ClassifierVocabulary] : n \in 1..MaxQueryWords}

\* intent_scores of analyze_query, for every modelled query
IntentScoreTable ==
    [q \in Queries \cup ClassifierQueries |-> [i \in DOMAIN IntentOrder |-> CountMatches(IntentOrder[i], q)]]

IntentIndex(intent) == CHOOSE i \in DOMAIN IntentOrder : IntentOrder[i] = intent

\* intent_scores[intent]
IntentScore(intent, query) == IntentScoreTable[query][IntentIndex(intent)]

\* max(intent_scores.values())
MaxIntentScore(query) ==
    LET scores == IntentScoreTable[query]
    IN CHOOSE m \in {scores[i] : i \in DOMAIN scores} :
          \A i \in DOMAIN scores : scores[i] <= m

\* max(intent_scores, key=intent_scores.get): the first key, in insertion
\* order, that carries the highest score
FirstMaxIntent(query) ==
    LET scores == IntentScoreTable[query]
        m == MaxIntentScore(query)
        i == CHOOSE k \in DOMAIN IntentOrder :
                /\ scores[k] = m
                /\ \A j \in 1..(k - 1) : scores[j] < m
    IN IntentOrder[i]

\* [v for v in vocabulary if v in text_lower]; an absent key is the empty list
MatchedVocabulary(vocabulary, query) ==
    SelectSeq(vocabulary, LAMBDA v : v \in SeqToSet(query))

\* extract_entities.  The location patterns need "near|around|in|at" followed
\* by whitespace, or a location noun; no modelled query has either.
extract_entities(query) ==
    [ cuisine          |-> MatchedVocabulary(entity_patterns.cuisine, query),
      price_range      |-> MatchedVocabulary(entity_patterns.price_range, query),
      time             |-> MatchedVocabulary(entity_patterns.time_expressions, query),
      event_type       |-> MatchedVocabulary(entity_patterns.event_types, query),
      related_searches |-> <<>> ]

NoEntities ==
    [ cuisine |-> <<>>, price_range |-> <<>>, time |-> <<>>, event_type |-> <<>>,
      related_searches |-> <<>> ]

\* the search-history influence of analyze_query (lines 199-205)
RelatedSearches(query, context) ==
    LET recent == LastN(context.search_history, 3)
    IN IF \E i \in DOMAIN recent : SeqToSet(recent[i]) \cap SeqToSet(query) # {}
       THEN recent ELSE <<>>

\* the return statement of analyze_query (lines 207-212).  raised: the KeyError
\* of self.intent_patterns[primary_intent] on line 210 when primary_intent is
\* "general_query", which is no key of intent_patterns.  confidence is the
\* fraction <<hits, number of rules>>.
AnalysisResult(primary, entities, query) ==
    IF primary \notin DOMAIN intent_patterns
    THEN [raised |-> TRUE, intent |-> primary, entities |-> entities,
          confidence |-> <<0, 1>>]
    ELSE [raised |-> FALSE, intent |-> primary, entities |-> entities,
          confidence |-> <<IntentScore(primary, query), Len(intent_patterns[primary])>>]

\* primary_intent of line 190
DetectedIntent(query) ==
    IF MaxIntentScore(query) > 0 THEN FirstMaxIntent(query) ELSE "general_query"

\* analyze_query
analyze_query(query, context) ==
    AnalysisResult(
        IF context.current_intent # "None" /\ context.current_intent \in SeqToSet(query)
        THEN context.current_intent ELSE DetectedIntent(query),
        [extract_entities(query) EXCEPT
            !.related_searches = RelatedSearches(query, context)],
        query)

-----------------------------------------------------------------------------
(* ConversationMemory (sequential use) *)

\* f"{user_id}:{session_id}"
ContextKey(user_id, session_id) == user_id \o <<":">> \o session_id

\* ConversationContext(user_id, session_id, conversation_history=[], user_preferences={})
NewContext ==
    [ conversation_history |-> <<>>,
      user_preferences     |-> [cuisine |-> "None"],
      search_history       |-> <<>>,
      current_intent       |-> "None" ]

\* get_or_create_context: the store after the call
get_or_create_context(convs, user_id, session_id) ==
    LET key == ContextKey(user_id, session_id)
    IN IF key \in DOMAIN convs THEN convs ELSE (key :> NewContext) @@ convs

\* the truncation of add_message: context.conversation_history[-self.max_history:]
TruncateHistory_KeepOldest(history) == FirstN(history, max_history)
TruncateHistory(history) == LastN(history, max_history)

\* add_message run to completion by one caller: the store after the call
add_message(convs, user_id, session_id, message) ==
    LET key      == ContextKey(user_id, session_id)
        convs1   == get_or_create_context(convs, user_id, session_id)
        appended == Append(convs1[key].conversation_history, message)
    IN [convs1 EXCEPT ![key].conversation_history =
            IF Len(appended) > max_history THEN TruncateHistory(appended)
            ELSE appended]

-----------------------------------------------------------------------------
(* AdvancedAIEngine: result cache *)

\* hashlib.md5(json.dumps({"intent": .., "entities": ..}, sort_keys=True)):
\* a digest of the pair, modelled as the pair (no digest collisions)
generate_cache_key(intent, entities) == [intent |-> intent, entities |-> entities]

\* json.dumps(data) / json.loads(cached): the stored text of a result list.
\* The text of the empty list is "[]", a non-empty and therefore truthy string.
JsonDumps(data) == <<"json", data>>
JsonLoads(text) == text[2]

\* Redis GET at time now: a key whose time to live has run out is gone
RedisGet(store, key, now) ==
    LET live == {e \in store : e.key = key /\ now < e.expireAt}
    IN IF live = {} THEN [found |-> FALSE, data |-> <<>>]
       ELSE [found |-> TRUE, data |-> (CHOOSE e \in live : TRUE).data]

\* Redis SETEX key ttl data at time now
RedisSetex(store, key, ttl, data, now) ==
    {e \in store : e.key # key}
        \cup {[key |-> key, data |-> data, expireAt |-> now + ttl]}

\* "if cached: return json.loads(cached)" of _get_from_cache
CachedValue(cached) ==
    IF cached.found /\ cached.data # <<>>
    THEN [found |-> TRUE, value |-> JsonLoads(cached.data), raised |-> FALSE]
    ELSE [found |-> FALSE, value |-> <<>>, raised |-> FALSE]

\* _get_from_cache: [found, value]; found = FALSE models the None it returns.
\* fails: the backend raises on GET, which the except clause turns into None.
get_from_cache_Unguarded(client, store, key, now, fails) ==
    IF ~client THEN [found |-> FALSE, value |-> <<>>, raised |-> FALSE]
    ELSE IF fails THEN [found |-> FALSE, value |-> <<>>, raised |-> TRUE]
    ELSE CachedValue(RedisGet(store, key, now))

get_from_cache(client, store, key, now, fails) ==
    IF ~client THEN [found |-> FALSE, value |-> <<>>, raised |-> FALSE]
    ELSE IF fails THEN [found |-> FALSE, value |-> <<>>, raised |-> FALSE]
    ELSE CachedValue(RedisGet(store, key, now))

\* _save_to_cache: the keyspace after the call (an error of the backend is logged)
save_to_cache_ShortTtl(client, store, key, data, now, fails) ==
    IF ~client \/ fails THEN store
    ELSE RedisSetex(store, key, ClockStep, JsonDumps(data), now)

save_to_cache(client, store, key, data, now, fails) ==
    IF ~client \/ fails THEN store
    ELSE RedisSetex(store, key, CACHE_TTL, JsonDumps(data), now)

-----------------------------------------------------------------------------
(* AdvancedAIEngine: retrieval.  embedding_model is None (the optional ML
   libraries are absent), so _apply_semantic_ranking is skipped. *)

matches_restaurant_criteria_AnyCuisine(restaurant, entities, context) ==
    context.user_preferences.cuisine # "None" =>
        context.user_preferences.cuisine = restaurant.category
\* _matches_restaurant_criteria
matches_restaurant_criteria(restaurant, entities, context) ==
    /\ entities.cuisine # <<>> =>
          \E i \in DOMAIN entities.cuisine : entities.cuisine[i] = restaurant.category
    /\ context.user_preferences.cuisine # "None" =>
          context.user_preferences.cuisine = restaurant.category

\* _matches_event_criteria
matches_event_criteria(event, entities, context) ==
    entities.event_type # <<>> =>
        \E i \in DOMAIN entities.event_type :
            entities.event_type[i] \in SeqToSet(event.title)

\* relevance_score of _get_menu_analysis, in tenths: 3 when the restaurant has
\* no menu, else the score _analyze_by_restaurant_type gives its category
menu_score(restaurant, user_query) ==
    IF ~restaurant.hasMenu THEN 3
    ELSE IF restaurant.category = "italian"
         THEN (IF {"italian", "pasta", "pizza"} \cap SeqToSet(user_query) # {}
               THEN 9 ELSE 7)
         ELSE 7

\* enhanced_restaurants.sort(key=menu_score, reverse=True): stable
InsertByMenuScore(sorted, x) ==
    LET k == Cardinality({i \in DOMAIN sorted : sorted[i].menu_score >= x.menu_score})
    IN SubSeq(sorted, 1, k) \o <<x>> \o SubSeq(sorted, k + 1, Len(sorted))

RECURSIVE SortByMenuScore(_)
SortByMenuScore(s) ==
    IF s = <<>> THEN <<>>
    ELSE InsertByMenuScore(SortByMenuScore(SubSeq(s, 1, Len(s) - 1)), s[Len(s)])

\* _analyze_restaurant_menus
analyze_restaurant_menus(restaurants, user_query) ==
    SortByMenuScore(
        [i \in DOMAIN restaurants |->
            [Id |-> restaurants[i].Id, category |-> restaurants[i].category,
             menu_score |-> menu_score(restaurants[i], user_query)]])

\* _search_restaurants; fails: the request to the catalog raises or answers
\* with a status other than 200
search_restaurants(entities, context, fails) ==
    IF fails THEN <<>>
    ELSE LET filtered == SelectSeq(BackendCompanies,
                 LAMBDA r : matches_restaurant_criteria(r, entities, context))
             history  == context.conversation_history
             user_query == IF history # <<>> THEN history[Len(history)].text ELSE <<>>
         IN FirstN(analyze_restaurant_menus(FirstN(filtered, 5), user_query), 10)

\* _search_events
search_events(entities, context, fails) ==
    IF fails THEN <<>>
    ELSE LET filtered == SelectSeq(BackendEvents,
                 LAMBDA e : matches_event_criteria(e, entities, context))
         IN FirstN([i \in DOMAIN filtered |->
                      [Id |-> filtered[i].Id, category |-> "event", menu_score |-> 0]],
                   10)

\* the retrieval branch of _get_recommendations (lines 640-653):
\* the list it builds and the number of _search_* calls it makes
FreshRecommendations(intent, entities, context, fails) ==
    IF intent = "search_restaurant"
    THEN [recs |-> search_restaurants(entities, context, fails), calls |-> 1]
    ELSE IF intent = "search_event"
    THEN [recs |-> search_events(entities, context, fails), calls |-> 1]
    ELSE IF intent = "general_query"
    THEN [recs |-> FirstN(search_restaurants(entities, context, fails), 3)
                     \o FirstN(search_events(entities, context, fails), 3),
          calls |-> 2]
    ELSE [recs |-> <<>>, calls |-> 0]

\* What one call of _get_recommendations did, for the record of the turn:
\* whether it was reached, hit the cache, how many _search_* calls it made,
\* the list retrieval built, whether SETEX stored it, under which key, and the
\* context object as it was when the call started (lookup_context)
NoTrace ==
    [ reached_cache |-> FALSE, cache_hit |-> FALSE, search_calls |-> 0,
      fresh |-> <<>>, saved |-> FALSE,
      cache_key |-> [intent |-> "None", entities |-> NoEntities],
      lookup_context |-> NewContext ]

\* _get_recommendations on a miss (lines 637-658)
RecommendationsFresh(fresh, client, store, metrics, now, fault, cache_key) ==
    [raised |-> FALSE, recs |-> fresh.recs,
     store |-> save_to_cache(client, store, cache_key, fresh.recs, now,
                             fault = "cache_set"),
     metrics |-> [metrics EXCEPT !.cache_misses = @ + 1],
     trace |-> [NoTrace EXCEPT !.reached_cache = TRUE,
                               !.search_calls = fresh.calls, !.fresh = fresh.recs,
                               !.saved = client /\ fault # "cache_set",
                               !.cache_key = cache_key]]

RecommendationsAfterLookup_HitOnEmpty(cached, analysis, context, client, store, metrics, now, fault, cache_key) ==
    IF cached.raised
    THEN [raised |-> TRUE, recs |-> <<>>, store |-> store, metrics |-> metrics,
          trace |-> [NoTrace EXCEPT !.reached_cache = TRUE, !.cache_key = cache_key]]
    ELSE IF cached.found
    THEN [raised |-> FALSE, recs |-> cached.value, store |-> store,
          metrics |-> [metrics EXCEPT !.cache_hits = @ + 1],
          trace |-> [NoTrace EXCEPT !.reached_cache = TRUE, !.cache_hit = TRUE,
                                    !.cache_key = cache_key]]
    ELSE RecommendationsFresh(
            FreshRecommendations(analysis.intent, analysis.entities, context,
                                 fault = "retrieve"),
            client, store, metrics, now, fault, cache_key)
\* _get_recommendations after the cache lookup (lines 633-658)
RecommendationsAfterLookup(cached, analysis, context, client, store, metrics, now, fault, cache_key) ==
    IF cached.raised
    THEN [raised |-> TRUE, recs |-> <<>>, store |-> store, metrics |-> metrics,
          trace |-> [NoTrace EXCEPT !.reached_cache = TRUE, !.cache_key = cache_key]]
    ELSE IF cached.found /\ cached.value # <<>>
    THEN [raised |-> FALSE, recs |-> cached.value, store |-> store,
          metrics |-> [metrics EXCEPT !.cache_hits = @ + 1],
          trace |-> [NoTrace EXCEPT !.reached_cache = TRUE, !.cache_hit = TRUE,
                                    !.cache_key = cache_key]]
    ELSE RecommendationsFresh(
            FreshRecommendations(analysis.intent, analysis.entities, context,
                                 fault = "retrieve"),
            client, store, metrics, now, fault, cache_key)

\* the record of a _get_recommendations call, with the context it was given
WithLookupContext(got, context) == [got EXCEPT !.trace.lookup_context = context]

\* _get_recommendations: the list returned, the keyspace and the counters after
get_recommendations(analysis, context, client, store, metrics, now, fault) ==
    WithLookupContext(
        RecommendationsAfterLookup(
            get_from_cache(client, store,
                           generate_cache_key(analysis.intent, analysis.entities),
                           now, fault = "cache_get"),
            analysis, context, client, store, metrics, now, fault,
            generate_cache_key(analysis.intent, analysis.entities)),
        context)

-----------------------------------------------------------------------------
(* AdvancedAIEngine.process_query *)

\* the AIResponse of the except clause (lines 611-622)
ErrorResponse == [intent |-> "error", confidence |-> <<0, 1>>, recommendations |-> <<>>]

UserMessage(query) == [text |-> query, is_user |-> TRUE, recommendations |-> <<>>]
ResponseMessage(recs) == [text |-> <<"response">>, is_user |-> FALSE, recommendations |-> recs]

\* What the try block of process_query (lines 566-607) leaves behind when it
\* stops at a statement: raised says an exception left the block, messages is
\* what the block handed to add_message.
BodyRaised(convs, store, metrics, messages, trace) ==
    [raised |-> TRUE, response |-> ErrorResponse, conversations |-> convs,
     store |-> store, metrics |-> metrics, messages |-> messages, trace |-> trace]

\* lines 585-607: generate_response, context update, second add_message, metrics
BodyAfterRecommendations(convs2, analysis, got, store, metrics, user_id, session_id, query, fault) ==
    IF got.raised
    THEN BodyRaised(convs2, store, metrics, <<UserMessage(query)>>, got.trace)
    ELSE IF fault = "generate"
    THEN BodyRaised(convs2, got.store, got.metrics, <<UserMessage(query)>>, got.trace)
    ELSE [raised |-> FALSE,
          response |-> [intent |-> analysis.intent, confidence |-> analysis.confidence,
                        recommendations |-> got.recs],
          conversations |->
              add_message(
                  [convs2 EXCEPT
                      ![ContextKey(user_id, session_id)].current_intent = analysis.intent,
                      ![ContextKey(user_id, session_id)].search_history = Append(@, query)],
                  user_id, session_id, ResponseMessage(got.recs)),
          store |-> got.store,
          metrics |-> [got.metrics EXCEPT !.total_queries = @ + 1],
          messages |-> <<UserMessage(query), ResponseMessage(got.recs)>>,
          trace |-> got.trace]

BodyAfterUserMessage_UpdateFirst(convs2, analysis, client, store, metrics, now, user_id, session_id, query, fault) ==
    BodyAfterRecommendations(
        convs2, analysis,
        get_recommendations(
            analysis,
            [convs2[ContextKey(user_id, session_id)] EXCEPT
                !.current_intent = analysis.intent,
                !.search_history = Append(@, query)],
            client, store, metrics, now, fault),
        store, metrics, user_id, session_id, query, fault)
\* lines 582-583: _get_recommendations on the context that holds the user message
BodyAfterUserMessage(convs2, analysis, client, store, metrics, now, user_id, session_id, query, fault) ==
    BodyAfterRecommendations(
        convs2, analysis,
        get_recommendations(analysis, convs2[ContextKey(user_id, session_id)],
                            client, store, metrics, now, fault),
        store, metrics, user_id, session_id, query, fault)

\* lines 574-580: the first add_message
BodyAfterAnalysis(convs1, analysis, client, store, metrics, now, user_id, session_id, query, fault) ==
    IF fault = "classify" \/ analysis.raised
    THEN BodyRaised(convs1, store, metrics, <<>>, NoTrace)
    ELSE BodyAfterUserMessage(
            add_message(convs1, user_id, session_id, UserMessage(query)),
            analysis, client, store, metrics, now, user_id, session_id, query, fault)

\* lines 571-572: analyze_query on the context just fetched
BodyAfterContext(convs1, client, store, metrics, now, user_id, session_id, query, fault) ==
    BodyAfterAnalysis(
        convs1, analyze_query(query, convs1[ContextKey(user_id, session_id)]),
        client, store, metrics, now, user_id, session_id, query, fault)

\* The try block of process_query (lines 566-607)
ProcessQueryBody(convs, client, store, metrics, now, user_id, session_id, query, fault) ==
    BodyAfterContext(get_or_create_context(convs, user_id, session_id),
                     client, store, metrics, now, user_id, session_id, query, fault)

\* "except Exception" of process_query (lines 609-622): what the caller gets
ErrorBoundary_Reraise(body) == [body EXCEPT !.response = ErrorResponse]
ErrorBoundary(body) ==
    IF body.raised THEN [body EXCEPT !.raised = FALSE, !.response = ErrorResponse]
    ELSE body

\* The record kept of a process_query call: its inputs, what the caller got
\* (raised: an exception reached the caller), caught: the except clause ran,
\* the trace of _get_recommendations, and the session's context as the call
\* found it (context_before)
NoTurn ==
    [ n |-> 0, user_id |-> <<>>, session_id |-> <<>>, key |-> <<>>,
      query |-> <<>>, at |-> 0, fault |-> "none", client |-> FALSE,
      raised |-> FALSE, caught |-> FALSE, response |-> ErrorResponse,
      trace |-> NoTrace, keyword_hits |-> 0, context_before |-> NewContext ]

\* number of (intent, rule) pairs of which a keyword occurs in the query
KeywordHitsTable ==
    [q \in Queries |->
        Cardinality({p \in {<<IntentOrder[i], j>> :
                              i \in DOMAIN IntentOrder, j \in 1..8} :
                        /\ p[2] \in DOMAIN intent_patterns[p[1]]
                        /\ KeywordMatches(intent_patterns[p[1]][p[2]], q)})]

KeywordHits(query) == KeywordHitsTable[query]

\* the record of one process_query call
TurnRecord(n, user_id, session_id, key, query, fault, body, out) ==
    [ n |-> n, user_id |-> user_id, session_id |-> session_id, key |-> key,
      query |-> query, at |-> clock,
      fault |-> fault, client |-> redis_client, raised |-> out.raised,
      caught |-> body.raised, response |-> out.response,
      trace |-> out.trace, keyword_hits |-> KeywordHits(query),
      context_before |-> IF key \in DOMAIN conversations THEN conversations[key]
                         ELSE NewContext ]

ProcessQuery(user_id, session_id, query, fault) ==
    /\ turnCount < MaxTurns
    /\ fault \in CacheFaults => redis_client
    /\ \E key \in {ContextKey(user_id, session_id)} :
       \E body \in {ProcessQueryBody(conversations, redis_client, redis_store,
                                     performance_metrics, clock,
                                     user_id, session_id, query, fault)} :
       \E out \in {ErrorBoundary(body)} :
          /\ conversations' = out.conversations
          /\ redis_store' = out.store
          /\ performance_metrics' = out.metrics
          /\ turnCount' = turnCount + 1
          /\ added' = IF key \in DOMAIN added
                      THEN [added EXCEPT ![key] = @ \o out.messages]
                      ELSE (key :> out.messages) @@ added
          /\ prevTurn' = lastTurn
          /\ lastTurn' = TurnRecord(turnCount + 1, user_id, session_id, key,
                                 query, fault, body, out)
    /\ UNCHANGED <<redis_client, clock>>
    /\ UNCHANGED <<memoryVars, catalogVars, textVars>>

\* the user's texts among the messages, as the comprehension of line 303 takes them
UserTexts(messages) ==
    LET mine == SelectSeq(messages, LAMBDA m : m.is_user)
    IN [i \in DOMAIN mine |-> mine[i].text]

\* ConversationMemory.get_context_summary: the dictionary returned
get_context_summary(convs, user_id, session_id) ==
    LET context == get_or_create_context(convs, user_id, session_id)[
                       ContextKey(user_id, session_id)]
    IN [ recent_queries |-> UserTexts(LastN(context.conversation_history, 5)),
         preferences    |-> context.user_preferences,
         search_history |-> LastN(context.search_history, 10),
         current_intent |-> context.current_intent ]

\* ConversationMemory.get_context_summary (lines 299-308), reached through
\* AdvancedAIEngine.get_conversation_context: it fetches the context with
\* get_or_create_context and returns a dictionary built from its fields
GetContextSummary(user_id, session_id) ==
    /\ \E key \in {ContextKey(user_id, session_id)} :
          /\ conversations' = get_or_create_context(conversations, user_id, session_id)
          /\ added' = IF key \in DOMAIN added THEN added ELSE (key :> <<>>) @@ added
    /\ UNCHANGED <<redis_client, redis_store, performance_metrics, clock,
                   turnCount, lastTurn, prevTurn>>
    /\ UNCHANGED <<memoryVars, catalogVars, textVars>>

\* time passes
Tick ==
    /\ clock + ClockStep <= MaxClock
    /\ clock' = clock + ClockStep
    /\ UNCHANGED <<conversations, redis_client, redis_store, performance_metrics,
                   turnCount, lastTurn, prevTurn, added>>
    /\ UNCHANGED <<memoryVars, catalogVars, textVars>>

\* AdvancedAIEngine.__init__ (lines 518-554); the Redis server may hold nothing
\* or be unreachable, in which case redis_client stays None
InitEngine ==
    /\ conversations = <<>>
    /\ redis_client \in BOOLEAN
    /\ redis_store = {}
    /\ performance_metrics = [total_queries |-> 0, cache_hits |-> 0, cache_misses |-> 0]
    /\ clock = 0
    /\ turnCount = 0
    /\ lastTurn = NoTurn
    /\ prevTurn = NoTurn
    /\ added = <<>>

NextEngine ==
    \/ \E u \in UserIds, s \in SessionIds, q \in Queries, f \in Faults :
          ProcessQuery(u, s, q, f)
    \/ \E u \in UserIds, s \in SessionIds : GetContextSummary(u, s)
    \/ Tick

\* ConversationMemory.update_preferences (lines 294-297) with {"cuisine": c}
update_preferences(convs, user_id, session_id, cuisine) ==
    [get_or_create_context(convs, user_id, session_id) EXCEPT
        ![ContextKey(user_id, session_id)].user_preferences.cuisine = cuisine]

UpdatePreferences(user_id, session_id, cuisine) ==
    /\ \E key \in {ContextKey(user_id, session_id)} :
          /\ conversations' = update_preferences(conversations, user_id, session_id, cuisine)
          /\ added' = IF key \in DOMAIN added THEN added ELSE (key :> <<>>) @@ added
    /\ UNCHANGED <<redis_client, redis_store, performance_metrics, clock,
                   turnCount, lastTurn, prevTurn>>
    /\ UNCHANGED <<memoryVars, catalogVars, textVars>>

\* cuisines a caller stores as a preference
PreferredCuisines == {"italian", "romanian"}

\* the engine with sessions whose preferences are set between turns
NextPreferences ==
    \/ \E u \in UserIds, s \in SessionIds, q \in Queries :
          ProcessQuery(u, s, q, "none")
    \/ \E u \in UserIds, s \in SessionIds, c \in PreferredCuisines :
          UpdatePreferences(u, s, c)
    \/ Tick

\* user and session ids as clients may send them: any strings, a ':' included
AnyUserIds == {<<"a">>, <<"a", ":", "b">>}
AnySessionIds == {<<"c">>, <<"b", ":", "c">>}

\* the engine serving clients that choose their ids freely
NextAnyIds ==
    \/ \E u \in AnyUserIds, s \in AnySessionIds, q \in Queries,
          f \in {"none", "generate"} :
          ProcessQuery(u, s, q, f)
    \/ \E u \in AnyUserIds, s \in AnySessionIds : GetContextSummary(u, s)
    \/ Tick

-----------------------------------------------------------------------------
(* ConversationMemory.add_message (lines 284-292) run by request threads of
   the threaded Flask server on one (user_id, session_id) key.  memory_lock is
   held inside get_or_create_context only; the statements after it run
   unlocked, and another thread may run between any two attribute accesses. *)

Threads == {"A", "B"}

\* the message of thread t's k-th add_message call
ThreadMessage(t, k) == <<t, k>>

\* line 286: get_or_create_context, atomic under memory_lock
GetContext(t) ==
    /\ pc[t] = "idle" /\ ops_done[t] < OpsPerThread
    /\ mem_created' = TRUE
    /\ pc' = [pc EXCEPT ![t] = "got"]
    /\ UNCHANGED <<mem_history, ops_done, stale, sliced, observed>>
    /\ UNCHANGED <<engineVars, catalogVars, textVars>>

\* line 287, first half: context.conversation_history is loaded
LoadHistory(t) ==
    /\ pc[t] = "got"
    /\ pc' = [pc EXCEPT ![t] = "loaded"]
    /\ stale' = [stale EXCEPT ![t] = FALSE]
    /\ UNCHANGED <<mem_created, mem_history, ops_done, sliced, observed>>
    /\ UNCHANGED <<engineVars, catalogVars, textVars>>

\* line 287, second half: .append(message) on the list that was loaded; when
\* that list has been replaced meanwhile, the message lands in a dead list
AppendMessage(t) ==
    /\ pc[t] = "loaded"
    /\ mem_history' = IF stale[t] THEN mem_history
                      ELSE Append(mem_history, ThreadMessage(t, ops_done[t] + 1))
    /\ pc' = [pc EXCEPT ![t] = "appended"]
    /\ UNCHANGED <<mem_created, ops_done, stale, sliced, observed>>
    /\ UNCHANGED <<engineVars, catalogVars, textVars>>

\* line 291: if len(context.conversation_history) > self.max_history
CheckLength(t) ==
    /\ pc[t] = "appended"
    /\ IF Len(mem_history) > max_history
       THEN /\ pc' = [pc EXCEPT ![t] = "over"]
            /\ UNCHANGED ops_done
       ELSE /\ pc' = [pc EXCEPT ![t] = "idle"]
            /\ ops_done' = [ops_done EXCEPT ![t] = @ + 1]
    /\ UNCHANGED <<mem_created, mem_history, stale, sliced, observed>>
    /\ UNCHANGED <<engineVars, catalogVars, textVars>>

\* line 292, right-hand side: context.conversation_history[-self.max_history:]
SliceHistory(t) ==
    /\ pc[t] = "over"
    /\ sliced' = [sliced EXCEPT ![t] = TruncateHistory(mem_history)]
    /\ pc' = [pc EXCEPT ![t] = "sliced"]
    /\ UNCHANGED <<mem_created, mem_history, ops_done, stale, observed>>
    /\ UNCHANGED <<engineVars, catalogVars, textVars>>

\* line 292, the assignment: the slice becomes the bound list; whoever loaded
\* the old list now holds a dead one
StoreHistory(t) ==
    /\ pc[t] = "sliced"
    /\ mem_history' = sliced[t]
    /\ stale' = [u \in Threads |-> IF u # t /\ pc[u] = "loaded" THEN TRUE ELSE stale[u]]
    /\ sliced' = [sliced EXCEPT ![t] = <<>>]
    /\ pc' = [pc EXCEPT ![t] = "idle"]
    /\ ops_done' = [ops_done EXCEPT ![t] = @ + 1]
    /\ UNCHANGED <<mem_created, observed>>
    /\ UNCHANGED <<engineVars, catalogVars, textVars>>

\* a reader (get_context_summary, line 303; _search_restaurants, line 684)
\* loads context.conversation_history without any lock
ReadHistory ==
    /\ mem_created
    /\ observed' = mem_history
    /\ UNCHANGED <<mem_created, mem_history, pc, ops_done, stale, sliced>>
    /\ UNCHANGED <<engineVars, catalogVars, textVars>>

InitMemory ==
    /\ mem_created = FALSE
    /\ mem_history = <<>>
    /\ pc = [t \in Threads |-> "idle"]
    /\ ops_done = [t \in Threads |-> 0]
    /\ stale = [t \in Threads |-> FALSE]
    /\ sliced = [t \in Threads |-> <<>>]
    /\ observed = <<>>

NextMemory ==
    \/ \E t \in Threads :
          \/ GetContext(t)
          \/ LoadHistory(t)
          \/ AppendMessage(t)
          \/ CheckLength(t)
          \/ SliceHistory(t)
          \/ StoreHistory(t)
    \/ ReadHistory

-----------------------------------------------------------------------------
(* EnhancedAIRecommenderBackendSimple (src/ai_recommender_backend_simple.py):
   the catalog held in data_cache and embeddings_cache, refresh_data and the
   searches.  A score is kept in hundredths (0.3 is 30). *)

SearchModes == {"all", "restaurants", "events"}

\* outcome of one make_request (lines 126-150): the parsed body, or None after
\* a connection error, a timeout, a non-success status or an unparsable body
Outcomes == {"ok", "fail"}

\* what GET /companies of the C# backend answers during refresh number g:
\* the catalog changes between refreshes
CompaniesAt(g) ==
    IF g % 2 = 1
    THEN << [id |-> 1, text |-> <<"Trattoria", "Italian", "pizza">>],
            [id |-> 2, text |-> <<"grill", "romanian">>] >>
    ELSE << [id |-> 2, text |-> <<"grill", "romanian">>],
            [id |-> 3, text |-> <<"pizza", "napoletana">>] >>

\* what GET /events answers during refresh number g
EventsAt(g) ==
    IF g % 2 = 1
    THEN << [id |-> 11, text |-> <<"rock", "Concert">>] >>
    ELSE << [id |-> 12, text |-> <<"jazz", "Concert">>],
            [id |-> 11, text |-> <<"rock", "Concert">>] >>

\* queries sent to the searches
CatalogQueries == { <<"Italian", "pizza">>, <<"concert">>,
                    <<"pizza", "aproape", "de", "mine">> }

\* cosine similarities the embedding model may give a query against a row
SimilarityValues == {20, 40, 90}

\* normalize_text (lines 179-193) on one word: lower-cases it (the diacritics
\* map and NFKD leave the ASCII words of this model as they are)
NormalizeWord(w) ==
    CASE w = "Trattoria" -> "trattoria"
      [] w = "Italian"   -> "italian"
      [] w = "Concert"   -> "concert"
      [] OTHER           -> w

normalize_text(text) == [i \in DOMAIN text |-> NormalizeWord(text[i])]

\* data_cache before the first refresh (lines 109-113); gen is the number of
\* the refresh_data call that bound the list, 0 for the constructor's literal
EmptyData ==
    [restaurants |-> [gen |-> 0, items |-> <<>>],
     events      |-> [gen |-> 0, items |-> <<>>]]

\* embeddings_cache = {} (line 108); a type is "in" the cache once gen > 0
NoEmbeddings ==
    [restaurants |-> [gen |-> 0, rows |-> <<>>],
     events      |-> [gen |-> 0, rows |-> <<>>]]

\* lines 201-221 and 225-241: the list refresh_data binds for one type
FetchedList(outcome, fetched, g) ==
    IF outcome = "ok" /\ fetched # <<>>
    THEN [gen |-> g, items |-> fetched]
    ELSE [gen |-> g, items |-> <<>>]

\* update_embeddings_cache for one type (lines 262-269, 272-279): one row per
\* item, written only when there is at least one text
EmbeddingsFor(emb, type, list) ==
    IF list.items # <<>>
    THEN [emb EXCEPT ![type] =
            [gen |-> list.gen, rows |-> [i \in DOMAIN list.items |-> list.items[i].id]]]
    ELSE emb

\* the items of both lists, without the refresh number that bound them
ItemsOf(data) == [restaurants |-> data.restaurants.items, events |-> data.events.items]

(* ---- searches ---- *)

\* np.argsort(similarities)[::-1][:limit] (line 382): indices by descending
\* similarity; argsort of a short array is stable, so after the reversal the
\* higher index comes first among equal similarities
InsertTop(sorted, x) ==
    LET before == SelectSeq(sorted, LAMBDA y : y.similarity > x.similarity)
        after  == SelectSeq(sorted, LAMBDA y : y.similarity <= x.similarity)
    IN before \o <<x>> \o after

RECURSIVE ArgsortDescending(_)
ArgsortDescending(entries) ==
    IF entries = <<>> THEN <<>>
    ELSE InsertTop(ArgsortDescending(SubSeq(entries, 1, Len(entries) - 1)),
                   entries[Len(entries)])

TopIndices(sims, limit) ==
    FirstN(ArgsortDescending([i \in DOMAIN sims |-> [idx |-> i, similarity |-> sims[i]]]),
           limit)

\* lines 384-399 and 401-403: the items looked up in data_cache for the top
\* indices above the threshold; an index past the end of the list raises
\* IndexError, which the except clause turns into []
SemanticKept(top) == SelectSeq(top, LAMBDA t : t.similarity > SEMANTIC_THRESHOLD)

SemanticLookupRaises(top, list) ==
    \E i \in DOMAIN SemanticKept(top) : SemanticKept(top)[i].idx > Len(list.items)

SemanticItems(top, list) ==
    IF SemanticLookupRaises(top, list)
    THEN <<>>
    ELSE [i \in DOMAIN SemanticKept(top) |->
            [item |-> list.items[SemanticKept(top)[i].idx],
             kind |-> "similarity", value |-> SemanticKept(top)[i].similarity]]

\* results.sort(key=score, reverse=True) (line 440): stable, descending
InsertByScore(sorted, x) ==
    LET before == SelectSeq(sorted, LAMBDA y : y.value >= x.value)
        after  == SelectSeq(sorted, LAMBDA y : y.value < x.value)
    IN before \o <<x>> \o after

RECURSIVE SortByScore(_)
SortByScore(s) ==
    IF s = <<>> THEN <<>>
    ELSE InsertByScore(SortByScore(SubSeq(s, 1, Len(s) - 1)), s[Len(s)])

\* lines 431-433: the overlap of the query's words with an item's words
MatchingWords(query, item) ==
    SeqToSet(normalize_text(query)) \cap SeqToSet(normalize_text(item.text))

KeywordScore(query, item) ==
    (100 * Cardinality(MatchingWords(query, item)))
        \div Cardinality(SeqToSet(normalize_text(query)))

\* keyword_search (lines 405-445) on the list it loaded from data_cache
keyword_search_KeepAll(items, query, limit) ==
    FirstN(SortByScore([i \in DOMAIN items |->
                          [item |-> items[i], kind |-> "score",
                           value |-> KeywordScore(query, items[i])]]),
           limit)
keyword_search(items, query, limit) ==
    LET hits == SelectSeq(items, LAMBDA item : MatchingWords(query, item) # {})
    IN FirstN(SortByScore([i \in DOMAIN hits |->
                             [item |-> hits[i], kind |-> "score",
                              value |-> KeywordScore(query, hits[i])]]),
              limit)

\* lines 468-473 and 475-480 of search_all: the first entry of each id is kept
RECURSIVE DedupeById(_, _)
DedupeById(results, seen) ==
    IF results = <<>> THEN <<>>
    ELSE IF Head(results).item.id \in seen
    THEN DedupeById(Tail(results), seen)
    ELSE <<Head(results)>> \o DedupeById(Tail(results), seen \cup {Head(results).item.id})

\* the list search_all returns for one type (lines 470-483)
MergedAll_SemanticOnly(semantic, keyword) == FirstN(DedupeById(semantic, {}), max_results)
MergedAll(semantic, keyword) == FirstN(DedupeById(semantic \o keyword, {}), max_results)

\* the list the /search endpoint builds for one type in the 'restaurants' and
\* 'events' modes (src/ai_chat_api_simple.py lines 356-367)
MergedTyped(semantic, keyword) == semantic \o keyword

(* ---- refresh_data, statement by statement ---- *)

\* the refresher between two refresh_data calls
IdleRefresh(g) ==
    [pc |-> "idle", gen |-> g, companies |-> "ok", events |-> "ok", before |-> EmptyData]

\* a search that a refresh statement runs beside has overlapped a refresh
Overlap(s) == IF s.pc = "idle" THEN s ELSE [s EXCEPT !.overlapped = TRUE]

\* lines 197-221: take data_lock, fetch /companies, bind data_cache['restaurants']
RefreshCompanies(outcome) ==
    /\ refresh.pc = "idle"
    /\ refresh.gen < MaxGen
    /\ data_cache' = [data_cache EXCEPT !.restaurants =
                         FetchedList(outcome, CompaniesAt(refresh.gen + 1), refresh.gen + 1)]
    /\ refresh' = [pc |-> "events", gen |-> refresh.gen + 1, companies |-> outcome,
                   events |-> "ok", before |-> data_cache]
    /\ search' = Overlap(search)
    /\ UNCHANGED <<embeddings_cache, embedding_model, last_search, searches_done>>
    /\ UNCHANGED <<engineVars, memoryVars, textVars>>

\* lines 224-246: fetch /events, bind data_cache['events']; without an
\* embedding model the refresh ends here and data_lock is released
RefreshEvents(outcome) ==
    /\ refresh.pc = "events"
    /\ data_cache' = [data_cache EXCEPT !.events =
                         FetchedList(outcome, EventsAt(refresh.gen), refresh.gen)]
    /\ refresh' = [refresh EXCEPT !.events = outcome,
                                  !.pc = IF embedding_model THEN "embed_restaurants"
                                         ELSE "idle"]
    /\ search' = Overlap(search)
    /\ UNCHANGED <<embeddings_cache, embedding_model, last_search, searches_done>>
    /\ UNCHANGED <<engineVars, memoryVars, textVars>>

\* update_embeddings_cache, lines 262-269
EmbedRestaurants ==
    /\ refresh.pc = "embed_restaurants"
    /\ embeddings_cache' = EmbeddingsFor(embeddings_cache, "restaurants",
                                         data_cache.restaurants)
    /\ refresh' = [refresh EXCEPT !.pc = "embed_events"]
    /\ search' = Overlap(search)
    /\ UNCHANGED <<data_cache, embedding_model, last_search, searches_done>>
    /\ UNCHANGED <<engineVars, memoryVars, textVars>>

\* update_embeddings_cache, lines 272-279; refresh_data returns and releases
\* data_lock
EmbedEvents ==
    /\ refresh.pc = "embed_events"
    /\ embeddings_cache' = EmbeddingsFor(embeddings_cache, "events", data_cache.events)
    /\ refresh' = [refresh EXCEPT !.pc = "idle"]
    /\ search' = Overlap(search)
    /\ UNCHANGED <<data_cache, embedding_model, last_search, searches_done>>
    /\ UNCHANGED <<engineVars, memoryVars, textVars>>

(* ---- one search request, read by read; no search takes data_lock ---- *)

NoResults == [restaurants |-> <<>>, events |-> <<>>]

\* no semantic_search call of the request has failed
NoneFailed == [restaurants |-> FALSE, events |-> FALSE]

\* kw_items is the list each keyword_search call loaded; semantic_failed says
\* for which type the semantic path was not available or raised
IdleSearch ==
    [pc |-> "idle", mode |-> "all", query |-> <<>>, limit |-> 0, plan |-> <<>>,
     top |-> <<>>, semantic |-> NoResults, keyword |-> NoResults,
     kw_items |-> NoResults, semantic_failed |-> NoneFailed,
     gens |-> {}, overlapped |-> FALSE]

\* the record of the last search that returned
NoSearch ==
    [n |-> 0, mode |-> "all", query |-> <<>>, limit |-> 0,
     restaurants |-> <<>>, events |-> <<>>,
     semantic |-> NoResults, keyword |-> NoResults,
     kw_items |-> NoResults, semantic_failed |-> NoneFailed,
     gens |-> {}, overlapped |-> FALSE]

\* the semantic_search and keyword_search calls a request makes, in order:
\* search_all (lines 456-465) skips the semantic calls without a model;
\* /search (src/ai_chat_api_simple.py lines 354-367) calls both for one type
SearchPlan(mode, haveModel) ==
    IF mode = "all"
    THEN (IF haveModel
          THEN << [op |-> "semantic", type |-> "restaurants"],
                  [op |-> "semantic", type |-> "events"] >>
          ELSE <<>>)
         \o << [op |-> "keyword", type |-> "restaurants"],
               [op |-> "keyword", type |-> "events"] >>
    ELSE << [op |-> "semantic", type |-> mode], [op |-> "keyword", type |-> mode] >>

\* the statement a search goes to after finishing a call of its plan
AfterCall(plan) == IF Tail(plan) = <<>> THEN "merge" ELSE "call"

\* a /search request arrives (src/ai_chat_api_simple.py lines 343-355)
StartSearch(mode, query, limit) ==
    /\ search.pc = "idle"
    /\ searches_done < MaxSearches
    /\ mode = "all" => limit = max_results
    /\ search' = [IdleSearch EXCEPT !.pc = "call", !.mode = mode, !.query = query,
                                    !.limit = limit,
                                    !.plan = SearchPlan(mode, embedding_model),
                                    !.semantic_failed =
                                        [t \in DOMAIN NoneFailed |->
                                            mode = "all" /\ ~embedding_model],
                                    !.overlapped = refresh.pc # "idle"]
    /\ last_search' = NoSearch
    /\ UNCHANGED <<data_cache, embeddings_cache, embedding_model, refresh,
                   searches_done>>
    /\ UNCHANGED <<engineVars, memoryVars, textVars>>

\* semantic_search lines 368-382: return [] without a model or without a
\* matrix for the type; else encode the query, which may raise (the except
\* clause of lines 401-403 then returns []), load the matrix and rank its rows
SemanticReadEmbeddings(encoded) ==
    /\ search.pc = "call"
    /\ Head(search.plan).op = "semantic"
    /\ \E type \in {Head(search.plan).type} :
          IF ~embedding_model
          THEN search' = [search EXCEPT !.semantic_failed[type] = TRUE,
                                        !.plan = Tail(@), !.pc = AfterCall(search.plan)]
          ELSE IF embeddings_cache[type].gen = 0
          THEN search' = [search EXCEPT !.plan = Tail(@), !.pc = AfterCall(search.plan)]
          ELSE IF ~encoded
          THEN search' = [search EXCEPT !.semantic_failed[type] = TRUE,
                                        !.plan = Tail(@), !.pc = AfterCall(search.plan)]
          ELSE \E sims \in [DOMAIN embeddings_cache[type].rows -> SimilarityValues] :
                  search' = [search EXCEPT
                                !.top = TopIndices(sims, search.limit),
                                !.gens = @ \cup {embeddings_cache[type].gen},
                                !.pc = "items"]
    /\ UNCHANGED <<data_cache, embeddings_cache, embedding_model, refresh,
                   last_search, searches_done>>
    /\ UNCHANGED <<engineVars, memoryVars, textVars>>

\* semantic_search lines 384-403: look the ranked rows up in data_cache
SemanticReadItems ==
    /\ search.pc = "items"
    /\ \E type \in {Head(search.plan).type} :
          search' = [search EXCEPT
                        !.semantic[type] = SemanticItems(search.top, data_cache[type]),
                        !.semantic_failed[type] =
                            SemanticLookupRaises(search.top, data_cache[type]),
                        !.gens = IF SemanticKept(search.top) = <<>> THEN @
                                 ELSE @ \cup {data_cache[type].gen},
                        !.top = <<>>,
                        !.plan = Tail(@),
                        !.pc = AfterCall(search.plan)]
    /\ UNCHANGED <<data_cache, embeddings_cache, embedding_model, refresh,
                   last_search, searches_done>>
    /\ UNCHANGED <<engineVars, memoryVars, textVars>>

\* keyword_search (lines 405-445): one load of the list from data_cache
KeywordSearch ==
    /\ search.pc = "call"
    /\ Head(search.plan).op = "keyword"
    /\ \E type \in {Head(search.plan).type} :
          search' = [search EXCEPT
                        !.keyword[type] = keyword_search(data_cache[type].items,
                                                         search.query, search.limit),
                        !.kw_items[type] = data_cache[type].items,
                        !.gens = @ \cup {data_cache[type].gen},
                        !.plan = Tail(@),
                        !.pc = AfterCall(search.plan)]
    /\ UNCHANGED <<data_cache, embeddings_cache, embedding_model, refresh,
                   last_search, searches_done>>
    /\ UNCHANGED <<engineVars, memoryVars, textVars>>

\* the merged lists of the request: search_all lines 467-483, or the
\* concatenations of src/ai_chat_api_simple.py lines 356-367
SearchResults(s) ==
    IF s.mode = "all"
    THEN [restaurants |-> MergedAll(s.semantic.restaurants, s.keyword.restaurants),
          events      |-> MergedAll(s.semantic.events, s.keyword.events)]
    ELSE [restaurants |-> MergedTyped(s.semantic.restaurants, s.keyword.restaurants),
          events      |-> MergedTyped(s.semantic.events, s.keyword.events)]

FinishSearch ==
    /\ search.pc = "merge"
    /\ last_search' = [n |-> searches_done + 1, mode |-> search.mode,
                       query |-> search.query, limit |-> search.limit,
                       restaurants |-> SearchResults(search).restaurants,
                       events |-> SearchResults(search).events,
                       semantic |-> search.semantic, keyword |-> search.keyword,
                       kw_items |-> search.kw_items,
                       semantic_failed |-> search.semantic_failed,
                       gens |-> search.gens, overlapped |-> search.overlapped]
    /\ search' = IdleSearch
    /\ searches_done' = searches_done + 1
    /\ UNCHANGED <<data_cache, embeddings_cache, embedding_model, refresh>>
    /\ UNCHANGED <<engineVars, memoryVars, textVars>>

\* __init__ (lines 58-124): the constructor's own refresh_data has run, with
\* or without an embedding model, against a backend that answered or not
InitCatalog ==
    \E c \in Outcomes, e \in Outcomes, model \in BOOLEAN :
       \E data \in {[restaurants |-> FetchedList(c, CompaniesAt(1), 1),
                     events |-> FetchedList(e, EventsAt(1), 1)]} :
          /\ embedding_model = model
          /\ data_cache = data
          /\ embeddings_cache =
                IF model
                THEN EmbeddingsFor(EmbeddingsFor(NoEmbeddings, "restaurants",
                                                 data.restaurants),
                                   "events", data.events)
                ELSE NoEmbeddings
          /\ refresh = [IdleRefresh(1) EXCEPT !.companies = c, !.events = e]
          /\ search = IdleSearch
          /\ last_search = NoSearch
          /\ searches_done = 0

\* a process that hosts no EnhancedAIRecommenderBackendSimple
NoCatalog ==
    /\ embedding_model = FALSE
    /\ data_cache = EmptyData
    /\ embeddings_cache = NoEmbeddings
    /\ refresh = IdleRefresh(0)
    /\ search = IdleSearch
    /\ last_search = NoSearch
    /\ searches_done = 0

NextCatalog ==
    \/ \E outcome \in Outcomes : RefreshCompanies(outcome)
    \/ \E outcome \in Outcomes : RefreshEvents(outcome)
    \/ EmbedRestaurants
    \/ EmbedEvents
    \/ \E mode \in SearchModes, query \in CatalogQueries, limit \in 1..max_results :
          StartSearch(mode, query, limit)
    \/ \E encoded \in BOOLEAN : SemanticReadEmbeddings(encoded)
    \/ SemanticReadItems
    \/ KeywordSearch
    \/ FinishSearch

-----------------------------------------------------------------------------
(* The intent classifiers as functions of one query:
   AdvancedNLPProcessor.analyze_query on a new context, and
   EnhancedAIRecommenderBackendSimple.classify_intent. *)

\* intent_patterns of classify_intent (lines 328-350), in dict order, with the
\* patterns that occur in a word of the modelled vocabulary
backend_intent_patterns ==
    << [intent |-> "greeting",          patterns |-> {"salut"}],
       [intent |-> "restaurant_search", patterns |-> {"restaurant"}],
       [intent |-> "food_search",       patterns |-> {}],
       [intent |-> "event_search",      patterns |-> {"concert"}],
       [intent |-> "location_search",   patterns |-> {}],
       [intent |-> "recommendation",    patterns |-> {}] >>

\* sum(1 for pattern in patterns if pattern in normalized_query) (line 355)
BackendIntentScore(i, query) ==
    Cardinality(backend_intent_patterns[i].patterns \cap SeqToSet(normalize_text(query)))

\* max(intent_scores, key=intent_scores.get) (line 362): the first intent, in
\* insertion order, that carries the highest score
BackendFirstMax(query) ==
    CHOOSE k \in DOMAIN backend_intent_patterns :
        /\ \A j \in DOMAIN backend_intent_patterns :
              BackendIntentScore(j, query) <= BackendIntentScore(k, query)
        /\ \A j \in 1..(k - 1) : BackendIntentScore(j, query) < BackendIntentScore(k, query)

\* classify_intent (lines 324-364)
classify_intent(query) ==
    IF \E i \in DOMAIN backend_intent_patterns : BackendIntentScore(i, query) > 0
    THEN backend_intent_patterns[BackendFirstMax(query)].intent
    ELSE "general"

NoClassification == [engine |-> "pending", backend |-> "pending"]

\* analyze_query (lines 177-212) on the context of a new session
AnalyzeQuery ==
    /\ cls_result.engine = "pending"
    /\ cls_result' = [cls_result EXCEPT !.engine = analyze_query(cls_query, NewContext).intent]
    /\ UNCHANGED cls_query
    /\ UNCHANGED <<engineVars, memoryVars, catalogVars, normVars, serviceVars>>

\* classify_intent (lines 324-364)
ClassifyIntent ==
    /\ cls_result.backend = "pending"
    /\ cls_result' = [cls_result EXCEPT !.backend = classify_intent(cls_query)]
    /\ UNCHANGED cls_query
    /\ UNCHANGED <<engineVars, memoryVars, catalogVars, normVars, serviceVars>>

InitClassify ==
    /\ cls_query \in ClassifierQueries
    /\ cls_result = NoClassification

\* no query is being classified
NoClassifier ==
    /\ cls_query = <<>>
    /\ cls_result = NoClassification

NextClassify == AnalyzeQuery \/ ClassifyIntent

-----------------------------------------------------------------------------
(* The query normalisers as functions of one string:
   AIRecommender.normalize_query (src/ai_recommender.py lines 324-338) and
   EnhancedAIRecommenderBackendSimple.normalize_text
   (src/ai_recommender_backend_simple.py lines 179-193).
   A string is a sequence of characters; the alphabet holds one character of
   each class the normalisers treat differently: "a_breve" and "A_BREVE" are
   the precomposed letters U+0103 and U+0102, "breve" the combining mark
   U+0306, "fi" the ligature U+FB01, "nbsp" the no-break space U+00A0. *)

NormAlphabet == {"a", "A", "s", "a_breve", "A_BREVE", "breve", "fi", "nbsp", " ", "1", ","}

NormInputs == UNION {[1..n -> NormAlphabet] : n \in 0..MaxChars}

\* unicodedata.normalize('NFKD', c) for one character
NFKD(c) ==
    CASE c = "a_breve" -> <<"a", "breve">>
      [] c = "A_BREVE" -> <<"A", "breve">>
      [] c = "fi"      -> <<"f", "i">>
      [] c = "nbsp"    -> <<" ">>
      [] OTHER         -> <<c>>

\* unicodedata.combining(c) != 0
IsCombining(c) == c = "breve"

\* str.lower() for one character
LowerChar(c) ==
    CASE c = "A"       -> "a"
      [] c = "A_BREVE" -> "a_breve"
      [] OTHER         -> c

\* the regex class \w and str.isdigit() for one character, Unicode whitespace
IsWordChar(c) == c \in {"a", "A", "s", "f", "i", "a_breve", "A_BREVE", "fi", "1"}
IsDigitChar(c) == c = "1"
IsSpaceChar(c) == c \in {" ", "nbsp"}

RECURSIVE FlatMapNFKD(_)
FlatMapNFKD(text) ==
    IF text = <<>> THEN <<>> ELSE NFKD(Head(text)) \o FlatMapNFKD(Tail(text))

Lower(text) == [i \in DOMAIN text |-> LowerChar(text[i])]

\* remove_diacritics (src/ai_recommender.py lines 182-187)
remove_diacritics(text) == SelectSeq(FlatMapNFKD(text), LAMBDA c : ~IsCombining(c))

\* re.findall(r'\w+', text): the maximal runs of word characters
RECURSIVE FindAllWords(_, _)
FindAllWords(text, run) ==
    IF text = <<>> THEN (IF run = <<>> THEN <<>> ELSE <<run>>)
    ELSE IF IsWordChar(Head(text)) THEN FindAllWords(Tail(text), Append(run, Head(text)))
    ELSE (IF run = <<>> THEN <<>> ELSE <<run>>) \o FindAllWords(Tail(text), <<>>)

\* " ".join(words)
RECURSIVE JoinWords(_)
JoinWords(words) ==
    IF words = <<>> THEN <<>>
    ELSE IF Len(words) = 1 THEN words[1]
    ELSE words[1] \o <<" ">> \o JoinWords(Tail(words))

\* self.stop_words (lines 76-102) within the alphabet: "sa" and its spelling
\* with a breve; normalized_stop_words of line 104
stop_words == { <<"s", "a">>, <<"s", "a_breve">> }
normalized_stop_words == {remove_diacritics(w) : w \in stop_words}

IsDigitWord(word) == \A i \in DOMAIN word : IsDigitChar(word[i])

\* normalize_query (src/ai_recommender.py lines 324-338)
normalize_query(query) ==
    JoinWords(SelectSeq(FindAllWords(Lower(remove_diacritics(query)), <<>>),
                        LAMBDA word : /\ word \notin normalized_stop_words
                                      /\ Len(word) > 1
                                      /\ ~IsDigitWord(word)))

\* str.strip()
RECURSIVE StripLeft(_)
StripLeft(text) ==
    IF text # <<>> /\ IsSpaceChar(Head(text)) THEN StripLeft(Tail(text)) ELSE text

RECURSIVE StripRight(_)
StripRight(text) ==
    IF text # <<>> /\ IsSpaceChar(text[Len(text)])
    THEN StripRight(SubSeq(text, 1, Len(text) - 1)) ELSE text

Strip_OneEachSide(text) ==
    SubSeq(text,
           IF text # <<>> /\ IsSpaceChar(Head(text)) THEN 2 ELSE 1,
           IF Len(text) > 1 /\ IsSpaceChar(text[Len(text)]) THEN Len(text) - 1
           ELSE Len(text))
Strip(text) == StripRight(StripLeft(text))

\* self.diacritics_map (lines 116-119) applied by str.replace (lines 186-187)
ReplaceDiacritics(text) ==
    [i \in DOMAIN text |->
        CASE text[i] = "a_breve" -> "a"
          [] text[i] = "A_BREVE" -> "A"
          [] OTHER               -> text[i]]

\* normalize_text (src/ai_recommender_backend_simple.py lines 179-193),
\* character by character
NormalizeText(text) ==
    IF text = <<>> THEN <<>>
    ELSE Strip(Lower(remove_diacritics(ReplaceDiacritics(text))))

\* get_cache_key (lines 152-155): the key is a function of the normalised
\* query; hash() is taken to be free of collisions
get_cache_key(prefix, query) == <<prefix, NormalizeText(query)>>

\* what a normaliser is applied to next: the input, or its own last result
NormArgument == IF norm_out = <<>> THEN norm_input ELSE norm_out[Len(norm_out)]

NormalizeQuery ==
    /\ norm_fn \in {"none", "normalize_query"}
    /\ Len(norm_out) < MaxApplications
    /\ norm_fn' = "normalize_query"
    /\ norm_out' = Append(norm_out, normalize_query(NormArgument))
    /\ UNCHANGED norm_input
    /\ UNCHANGED <<engineVars, memoryVars, catalogVars, classifyVars, serviceVars>>

NormalizeTextCall ==
    /\ norm_fn \in {"none", "normalize_text"}
    /\ Len(norm_out) < MaxApplications
    /\ norm_fn' = "normalize_text"
    /\ norm_out' = Append(norm_out, NormalizeText(NormArgument))
    /\ UNCHANGED norm_input
    /\ UNCHANGED <<engineVars, memoryVars, catalogVars, classifyVars, serviceVars>>

InitNormalize ==
    /\ norm_input \in NormInputs
    /\ norm_fn = "none"
    /\ norm_out = <<>>

\* no string is being normalised
NoNormalizer ==
    /\ norm_input = <<>>
    /\ norm_fn = "none"
    /\ norm_out = <<>>

NextNormalize == NormalizeQuery \/ NormalizeTextCall

-----------------------------------------------------------------------------
(* POST /chat: chat of src/ai_chat_api_simple.py (lines 116-152),
   chat_compatibility of src/ai_chat_api_advanced.py (lines 548-636) and chat
   of src/ai_chat_api_smart.py (lines 77-127).
   A query is given by its lengths: core characters that begin and end with
   a non-blank one, and the blanks before and after them. *)

QueryShapes ==
    [core : {0, 1, MAX_QUERY_LENGTH - 1, MAX_QUERY_LENGTH, MAX_QUERY_LENGTH + 1, 1499},
     blanks : {0, 1, 2}]

\* request.get_json(): no body (or an empty object), an object without the
\* 'query' field, an object with it; query is read only when kind is "query"
NoQuery == [core |-> 0, blanks |-> 0]

ChatBodies ==
    {[kind |-> "none", query |-> NoQuery], [kind |-> "no_query", query |-> NoQuery]}
        \cup {[kind |-> "query", query |-> q] : q \in QueryShapes}

HasQuery(body) == body.kind = "query"

\* len(query) of the field as sent, and of query.strip()
QueryLength(q) == q.core + q.blanks
StrippedLength(q) == q.core

\* the answer of a handler: HTTP status, and whether the recommender ran
ChatAnswer(status, invoked) == [status |-> status, invoked |-> invoked]

\* chat of ai_chat_api_simple.py; raises: get_chat_response raised
chat_simple(body, ready, raises) ==
    IF ~HasQuery(body) THEN ChatAnswer(400, FALSE)
    ELSE IF StrippedLength(body.query) = 0 THEN ChatAnswer(400, FALSE)
    ELSE IF StrippedLength(body.query) > MAX_QUERY_LENGTH THEN ChatAnswer(400, FALSE)
    ELSE IF ~ready THEN ChatAnswer(503, FALSE)
    ELSE IF raises THEN ChatAnswer(500, TRUE)
    ELSE ChatAnswer(200, TRUE)

\* chat_compatibility of ai_chat_api_advanced.py; an error of process_query
\* or a missing engine is answered with get_fallback_response
chat_compatibility(body, ready, raises) ==
    IF body.kind = "none" THEN ChatAnswer(400, FALSE)
    ELSE IF ~HasQuery(body) THEN ChatAnswer(400, FALSE)
    ELSE IF StrippedLength(body.query) = 0 THEN ChatAnswer(400, FALSE)
    ELSE ChatAnswer(200, ready)

\* chat of ai_chat_api_smart.py; when chatbot is None initialize_chatbot runs
\* first (initialized: it succeeded)
chat_smart(body, ready, initialized, raises) ==
    IF ~ready /\ ~initialized THEN ChatAnswer(500, FALSE)
    ELSE IF ~HasQuery(body) THEN ChatAnswer(400, FALSE)
    ELSE IF StrippedLength(body.query) = 0 THEN ChatAnswer(400, FALSE)
    ELSE IF raises THEN ChatAnswer(500, TRUE)
    ELSE ChatAnswer(200, TRUE)

ChatSimple(raises) ==
    /\ chat_api = "none"
    /\ chat_api' = "simple"
    /\ \E answer \in {chat_simple(chat_body, chat_ready, raises)} :
          chat_status' = answer.status /\ chat_invoked' = answer.invoked
    /\ UNCHANGED <<chat_body, chat_ready>>
    /\ UNCHANGED <<engineVars, memoryVars, catalogVars, classifyVars, normVars>>
    /\ UNCHANGED <<responseVars, resetVars, botVars, matchVars>>

ChatAdvanced(raises) ==
    /\ chat_api = "none"
    /\ chat_api' = "advanced"
    /\ \E answer \in {chat_compatibility(chat_body, chat_ready, raises)} :
          chat_status' = answer.status /\ chat_invoked' = answer.invoked
    /\ UNCHANGED <<chat_body, chat_ready>>
    /\ UNCHANGED <<engineVars, memoryVars, catalogVars, classifyVars, normVars>>
    /\ UNCHANGED <<responseVars, resetVars, botVars, matchVars>>

ChatSmart(initialized, raises) ==
    /\ chat_api = "none"
    /\ chat_api' = "smart"
    /\ \E answer \in {chat_smart(chat_body, chat_ready, initialized, raises)} :
          chat_status' = answer.status /\ chat_invoked' = answer.invoked
    /\ UNCHANGED <<chat_body, chat_ready>>
    /\ UNCHANGED <<engineVars, memoryVars, catalogVars, classifyVars, normVars>>
    /\ UNCHANGED <<responseVars, resetVars, botVars, matchVars>>

InitChat ==
    /\ chat_body \in ChatBodies
    /\ chat_ready \in BOOLEAN
    /\ chat_api = "none"
    /\ chat_status = 0
    /\ chat_invoked = FALSE

\* no request is being served
NoChat ==
    /\ chat_body = [kind |-> "none", query |-> NoQuery]
    /\ chat_ready = FALSE
    /\ chat_api = "none"
    /\ chat_status = 0
    /\ chat_invoked = FALSE

NextChat ==
    \/ \E raises \in BOOLEAN : ChatSimple(raises)
    \/ \E raises \in BOOLEAN : ChatAdvanced(raises)
    \/ \E initialized \in BOOLEAN, raises \in BOOLEAN : ChatSmart(initialized, raises)

-----------------------------------------------------------------------------
(* OptimizedAIRecommender (src/ai_recommender.optimized.py): get_cached_response
   and set_cached_response (lines 118-147).  The in-memory dictionary holds
   fewer than 1000 keys here, so the eviction of lines 141-145 does not run. *)

ResponseKeys == {"k1", "k2"}
Responses == {"a", "b"}

\* redis GET: the value stored under the key while it has not expired
RedisValue(store, key, now) ==
    IF \E e \in store : e.key = key /\ now < e.expires
    THEN (CHOOSE e \in store : e.key = key /\ now < e.expires).value
    ELSE "None"

\* get_cached_response; raises: redis_client.get raised
get_cached_response(client, store, cache, key, now, raises) ==
    IF client /\ ~raises /\ RedisValue(store, key, now) # "None"
    THEN RedisValue(store, key, now)
    ELSE cache[key]

\* set_cached_response stored the response in Redis (SETEX did not raise)
StoredInRedis(client, raises) == client /\ ~raises

\* redis SETEX key ttl value
Setex(store, key, value, now) ==
    {e \in store : e.key # key}
        \cup {[key |-> key, value |-> value, expires |-> now + RESPONSE_TTL]}

SetCachedResponse(key, response, raises) ==
    /\ IF StoredInRedis(opt_redis, raises)
       THEN /\ opt_store' = Setex(opt_store, key, response, opt_now)
            /\ UNCHANGED response_cache
       ELSE /\ response_cache' = [response_cache EXCEPT ![key] = response]
            /\ UNCHANGED opt_store
    /\ opt_saved' = [opt_saved EXCEPT ![key] = opt_now]
    /\ UNCHANGED <<opt_redis, opt_now, opt_got>>
    /\ UNCHANGED <<engineVars, memoryVars, catalogVars, classifyVars, normVars>>
    /\ UNCHANGED <<chatVars, resetVars, botVars, matchVars>>

GetCachedResponse(key, raises) ==
    /\ opt_got' = [key |-> key, at |-> opt_now,
                   value |-> get_cached_response(opt_redis, opt_store, response_cache,
                                                 key, opt_now, raises)]
    /\ UNCHANGED <<opt_redis, opt_store, response_cache, opt_now, opt_saved>>
    /\ UNCHANGED <<engineVars, memoryVars, catalogVars, classifyVars, normVars>>
    /\ UNCHANGED <<chatVars, resetVars, botVars, matchVars>>

\* time passes
ResponseTick ==
    /\ opt_now + ClockStep <= MaxClock
    /\ opt_now' = opt_now + ClockStep
    /\ UNCHANGED <<opt_redis, opt_store, response_cache, opt_saved, opt_got>>
    /\ UNCHANGED <<engineVars, memoryVars, catalogVars, classifyVars, normVars>>
    /\ UNCHANGED <<chatVars, resetVars, botVars, matchVars>>

NoResponse == [key |-> "None", at |-> 0, value |-> "None"]

\* __init__ (lines 45-52, 104): Redis answers the ping or redis_client is None
InitResponses ==
    /\ opt_redis \in BOOLEAN
    /\ opt_store = {}
    /\ response_cache = [k \in ResponseKeys |-> "None"]
    /\ opt_now = 0
    /\ opt_saved = [k \in ResponseKeys |-> -1]
    /\ opt_got = NoResponse

\* no OptimizedAIRecommender is in use
NoResponses ==
    /\ opt_redis = FALSE
    /\ opt_store = {}
    /\ response_cache = [k \in ResponseKeys |-> "None"]
    /\ opt_now = 0
    /\ opt_saved = [k \in ResponseKeys |-> -1]
    /\ opt_got = NoResponse

NextResponses ==
    \/ \E k \in ResponseKeys, r \in Responses, raises \in BOOLEAN :
          SetCachedResponse(k, r, raises)
    \/ \E k \in ResponseKeys, raises \in BOOLEAN : GetCachedResponse(k, raises)
    \/ ResponseTick

-----------------------------------------------------------------------------
(* reset_conversation of src/ai_chat_api_advanced.py (lines 489-516) beside
   process_query turns (src/ai_advanced_engine.py lines 566-600) for the same
   key, each turn in a thread of its own (threaded=True, and the thread of
   lines 575-603).  reset_conversation deletes the key without memory_lock;
   a turn keeps the context object it fetched on line 567, and each
   add_message fetches the stored one again.  add_message is taken as one
   step here. *)

\* the context stored under the key: present, object identity, its fields;
\* made counts the ConversationContext objects constructed so far
AbsentContext ==
    [present |-> FALSE, id |-> 0, history |-> <<>>, current_intent |-> "None", made |-> 0]

\* get_or_create_context on the stored context
FetchContext(ctx) ==
    IF ctx.present THEN ctx
    ELSE [present |-> TRUE, id |-> ctx.made + 1, history |-> <<>>,
          current_intent |-> "None", made |-> ctx.made + 1]

\* add_message on the stored context
StoreMessage(ctx, message) ==
    LET fetched  == FetchContext(ctx)
        appended == Append(fetched.history, message)
    IN [fetched EXCEPT !.history =
            IF Len(appended) > max_history THEN TruncateHistory(appended)
            ELSE appended]

\* a message of thread t's turn: who sent it, and how many resets had
\* completed when the turn started
TurnMessage(t, is_user) ==
    [thread |-> t, turn |-> reset_turns[t].turns + 1, is_user |-> is_user,
     epoch |-> reset_turns[t].epoch]

IdleTurn == [pc |-> "idle", held |-> 0, epoch |-> 0, turns |-> 0]

\* line 567: context = get_or_create_context(user_id, session_id)
StartTurn(t) ==
    /\ reset_turns[t].pc = "idle" /\ reset_turns[t].turns < TurnsPerThread
    /\ reset_context' = FetchContext(reset_context)
    /\ reset_turns' = [reset_turns EXCEPT ![t].pc = "fetched",
                                          ![t].held = FetchContext(reset_context).id,
                                          ![t].epoch = resets_done]
    /\ UNCHANGED resets_done
    /\ UNCHANGED <<engineVars, memoryVars, catalogVars, classifyVars, normVars>>
    /\ UNCHANGED <<chatVars, responseVars, botVars, matchVars>>

\* lines 572-580: analyze_query, then add_message with the user's query
AddUserMessage(t) ==
    /\ reset_turns[t].pc = "fetched"
    /\ reset_context' = StoreMessage(reset_context, TurnMessage(t, TRUE))
    /\ reset_turns' = [reset_turns EXCEPT ![t].pc = "asked"]
    /\ UNCHANGED resets_done
    /\ UNCHANGED <<engineVars, memoryVars, catalogVars, classifyVars, normVars>>
    /\ UNCHANGED <<chatVars, responseVars, botVars, matchVars>>

\* lines 583-592: retrieval and response generation, then current_intent and
\* search_history are set on the object fetched on line 567
UpdateHeldContext(t) ==
    /\ reset_turns[t].pc = "asked"
    /\ reset_context' =
          IF reset_context.present /\ reset_context.id = reset_turns[t].held
          THEN [reset_context EXCEPT !.current_intent = "search_restaurant"]
          ELSE reset_context
    /\ reset_turns' = [reset_turns EXCEPT ![t].pc = "updated"]
    /\ UNCHANGED resets_done
    /\ UNCHANGED <<engineVars, memoryVars, catalogVars, classifyVars, normVars>>
    /\ UNCHANGED <<chatVars, responseVars, botVars, matchVars>>

\* lines 595-600: add_message with the response
AddResponseMessage(t) ==
    /\ reset_turns[t].pc = "updated"
    /\ reset_context' = StoreMessage(reset_context, TurnMessage(t, FALSE))
    /\ reset_turns' = [reset_turns EXCEPT ![t].pc = "idle", ![t].turns = @ + 1]
    /\ UNCHANGED resets_done
    /\ UNCHANGED <<engineVars, memoryVars, catalogVars, classifyVars, normVars>>
    /\ UNCHANGED <<chatVars, responseVars, botVars, matchVars>>

\* reset_conversation, lines 504-507: del conversations[context_key]
ResetConversation ==
    /\ resets_done < MaxResets
    /\ reset_context' = [AbsentContext EXCEPT !.made = reset_context.made]
    /\ resets_done' = resets_done + 1
    /\ UNCHANGED reset_turns
    /\ UNCHANGED <<engineVars, memoryVars, catalogVars, classifyVars, normVars>>
    /\ UNCHANGED <<chatVars, responseVars, botVars, matchVars>>

InitReset ==
    /\ reset_context = AbsentContext
    /\ reset_turns = [t \in Threads |-> IdleTurn]
    /\ resets_done = 0

NextReset ==
    \/ \E t \in Threads :
          \/ StartTurn(t)
          \/ AddUserMessage(t)
          \/ UpdateHeldContext(t)
          \/ AddResponseMessage(t)
    \/ ResetConversation

-----------------------------------------------------------------------------
(* SmartChatbot.get_chat_response (src/ai_smart_chatbot.py lines 380-389):
   the decision to call refresh_data before answering. *)

\* durations between two calls
BotSteps == {1, REFRESH_AFTER, DAY_SECONDS}

\* (current_time - self.last_refresh).seconds for a non-negative duration:
\* the seconds of the timedelta without its days
TimedeltaSeconds(duration) == duration % DAY_SECONDS

\* the condition of line 387
NeedsRefresh(now, last) ==
    last = -1 \/ TimedeltaSeconds(now - last) > REFRESH_AFTER

\* get_chat_response, lines 385-389; the answer itself is not modelled
GetChatResponse ==
    /\ bot_call' = [n |-> 1, at |-> bot_now, found |-> last_refresh,
                    refreshed |-> NeedsRefresh(bot_now, last_refresh)]
    /\ last_refresh' = IF NeedsRefresh(bot_now, last_refresh) THEN bot_now
                       ELSE last_refresh
    /\ UNCHANGED <<bot_now, bot_ticks>>
    /\ UNCHANGED <<engineVars, memoryVars, catalogVars, classifyVars, normVars>>
    /\ UNCHANGED <<chatVars, responseVars, resetVars, matchVars>>

\* time passes
BotTick(step) ==
    /\ bot_ticks < MaxBotTicks
    /\ bot_now' = bot_now + step
    /\ bot_ticks' = bot_ticks + 1
    /\ UNCHANGED <<last_refresh, bot_call>>
    /\ UNCHANGED <<engineVars, memoryVars, catalogVars, classifyVars, normVars>>
    /\ UNCHANGED <<chatVars, responseVars, resetVars, matchVars>>

NoBotCall == [n |-> 0, at |-> 0, found |-> -1, refreshed |-> FALSE]

\* __init__ (lines 15-72) loads the catalog and leaves last_refresh unset
InitBot ==
    /\ bot_now = 0
    /\ bot_ticks = 0
    /\ last_refresh = -1
    /\ bot_call = NoBotCall

NextBot ==
    \/ GetChatResponse
    \/ \E step \in BotSteps : BotTick(step)

-----------------------------------------------------------------------------
(* find_matches and is_relevant_match of AIRecommender (src/ai_recommender.py
   lines 340-395) and of OptimizedAIRecommender (src/ai_recommender.optimized.py
   lines 398-450).  The vector search is given by its answer: the documents
   (dishes) it returned with the company each belongs to, nearest first. *)

\* str(c['id']) of the companies in self.company_data
CompanyIds == {"1", "2"}

\* dishes in the collection; company "9" is no longer in company_data
Dishes ==
    { [company_id |-> "1", dish |-> <<"supa", "de", "legume">>],
      [company_id |-> "1", dish |-> <<"pizza", "margherita">>],
      [company_id |-> "2", dish |-> <<"pizza", "mare">>],
      [company_id |-> "9", dish |-> <<"pizza">>] }

DishQueries == { <<"pizza">>, <<"pizza", "mare", "picanta">> }

CandidateLists == UNION {[1..n -> Dishes] : n \in 0..MaxCandidates}

\* is_relevant_match: matching_words / len(query_words) >= threshold
is_relevant_match(query, dish, threshold) ==
    /\ SeqToSet(query) # {}
    /\ Cardinality(SeqToSet(query) \cap SeqToSet(dish)) * 100
          >= threshold * Cardinality(SeqToSet(query))

\* the loop of find_matches from candidate i on; limit is the number of
\* matches at which the optimized class stops, 0 for no such stop
RECURSIVE MatchLoop(_, _, _, _, _, _)
MatchLoop(candidates, i, seen_companies, matches, query, limit) ==
    IF i > Len(candidates) THEN matches
    ELSE IF limit > 0 /\ Len(matches) >= limit THEN matches
    ELSE IF candidates[i].company_id \in seen_companies
    THEN MatchLoop(candidates, i + 1, seen_companies, matches, query, limit)
    ELSE IF candidates[i].company_id \notin CompanyIds
    THEN MatchLoop(candidates, i + 1,
                   seen_companies \cup {candidates[i].company_id},
                   matches, query, limit)
    ELSE MatchLoop(candidates, i + 1,
                   seen_companies \cup {candidates[i].company_id},
                   IF is_relevant_match(query, candidates[i].dish, MATCH_THRESHOLD)
                   THEN Append(matches, [company |-> candidates[i].company_id,
                                         dish |-> candidates[i].dish])
                   ELSE matches,
                   query, limit)

\* AIRecommender.find_matches
find_matches(query, candidates) == MatchLoop(candidates, 1, {}, <<>>, query, 0)

\* OptimizedAIRecommender.find_matches: stops at five matches
find_matches_optimized(query, candidates) ==
    MatchLoop(candidates, 1, {}, <<>>, query, 5)

FindMatches ==
    /\ fm_variant = "none"
    /\ fm_variant' = "AIRecommender"
    /\ fm_matches' = find_matches(fm_query, fm_candidates)
    /\ UNCHANGED <<fm_query, fm_candidates>>
    /\ UNCHANGED <<engineVars, memoryVars, catalogVars, classifyVars, normVars>>
    /\ UNCHANGED <<chatVars, responseVars, resetVars, botVars>>

FindMatchesOptimized ==
    /\ fm_variant = "none"
    /\ fm_variant' = "OptimizedAIRecommender"
    /\ fm_matches' = find_matches_optimized(fm_query, fm_candidates)
    /\ UNCHANGED <<fm_query, fm_candidates>>
    /\ UNCHANGED <<engineVars, memoryVars, catalogVars, classifyVars, normVars>>
    /\ UNCHANGED <<chatVars, responseVars, resetVars, botVars>>

InitMatch ==
    /\ fm_query \in DishQueries
    /\ fm_candidates \in CandidateLists
    /\ fm_variant = "none"
    /\ fm_matches = <<>>

\* find_matches is not running
NoMatch ==
    /\ fm_query = <<>>
    /\ fm_candidates = <<>>
    /\ fm_variant = "none"
    /\ fm_matches = <<>>

NextMatch == FindMatches \/ FindMatchesOptimized

\* the services of this part at rest
NoServices == NoChat /\ NoResponses /\ InitReset /\ InitBot /\ NoMatch

\* every component but the services at rest
OnlyServices ==
    InitEngine /\ ~redis_client /\ InitMemory /\ NoCatalog /\ NoClassifier
        /\ NoNormalizer

-----------------------------------------------------------------------------
(* Specifications *)

Init ==
    InitEngine /\ InitMemory /\ NoCatalog /\ NoClassifier /\ NoNormalizer
        /\ NoServices

\* the process that serves /search: the recommender is constructed, the
\* engine's cache is not connected
InitSearchService ==
    InitEngine /\ ~redis_client /\ InitMemory /\ InitCatalog /\ NoClassifier
        /\ NoNormalizer /\ NoServices

\* process_query turns, one after the other
Spec == Init /\ [][NextEngine]_vars

\* two request threads inside add_message on one key
\* process_query and get_context_summary with ids that may hold a ':'
SpecAnyIds == Init /\ [][NextAnyIds]_vars

\* turns of sessions that store a cuisine preference
SpecPreferences == Init /\ [][NextPreferences]_vars

SpecMemory == Init /\ [][NextMemory]_vars

\* refresh_data beside one search request at a time
SpecCatalog == InitSearchService /\ [][NextCatalog]_vars

\* the two intent classifiers applied to one query
InitClassifiers ==
    InitEngine /\ ~redis_client /\ InitMemory /\ NoCatalog /\ InitClassify
        /\ NoNormalizer /\ NoServices

SpecClassify == InitClassifiers /\ [][NextClassify]_vars

InitNormalizers ==
    InitEngine /\ ~redis_client /\ InitMemory /\ NoCatalog /\ NoClassifier
        /\ InitNormalize /\ NoServices

\* a normaliser applied to one string and to its own results
SpecNormalize == InitNormalizers /\ [][NextNormalize]_vars

InitChatService ==
    OnlyServices /\ InitChat /\ NoResponses /\ InitReset /\ InitBot /\ NoMatch

\* one POST /chat served by one of the three modules
SpecChat == InitChatService /\ [][NextChat]_vars

InitResponseCache ==
    OnlyServices /\ NoChat /\ InitResponses /\ InitReset /\ InitBot /\ NoMatch

\* the response cache of one OptimizedAIRecommender
SpecResponses == InitResponseCache /\ [][NextResponses]_vars

InitResetService ==
    OnlyServices /\ NoChat /\ NoResponses /\ InitReset /\ InitBot /\ NoMatch

\* /api/reset beside turns of the same session
SpecReset == InitResetService /\ [][NextReset]_vars

InitBotService ==
    OnlyServices /\ NoChat /\ NoResponses /\ InitReset /\ InitBot /\ NoMatch

\* calls of SmartChatbot.get_chat_response as time passes
SpecBot == InitBotService /\ [][NextBot]_vars

InitMatchService ==
    OnlyServices /\ NoChat /\ NoResponses /\ InitReset /\ InitBot /\ InitMatch

\* one find_matches call on the answer of the vector search
SpecMatch == InitMatchService /\ [][NextMatch]_vars

-----------------------------------------------------------------------------
(* Properties of process_query, checked under Spec *)

Delivered == lastTurn.n > 0

IsErrorResponse(response) ==
    /\ response.intent = "error"
    /\ response.recommendations = <<>>
    /\ response.confidence[1] = 0

\* an exception was raised inside _search_restaurants / _search_events
RetrievalRaised(turn) == turn.fault = "retrieve" /\ turn.trace.search_calls > 0

C2_NoRuleMeansGeneral ==
    (Delivered /\ lastTurn.fault = "none" /\ lastTurn.keyword_hits = 0) =>
        /\ lastTurn.response.intent = "general_query"
        /\ lastTurn.response.confidence[1] = 0

\* C3: the same query issued twice in a row in one session within the TTL,
\* with the cache backend up and results found the first time, is served
\* from the cache the second time: no _search_* call is made for it.
SameQueryTwice ==
    /\ prevTurn.n > 0
    /\ lastTurn.key = prevTurn.key /\ lastTurn.query = prevTurn.query
    /\ lastTurn.client
    /\ lastTurn.fault = "none" /\ prevTurn.fault = "none"
    /\ lastTurn.at - prevTurn.at < CACHE_TTL
    /\ prevTurn.response.recommendations # <<>>

C3_SecondCallFromCache ==
    SameQueryTwice => lastTurn.trace.cache_hit /\ lastTurn.trace.search_calls = 0

\* C7: after any number of turns a key's conversation_history is the last
\* max_history messages handed to add_message for it, in insertion order.
C7_HistoryIsLastMessages ==
    \A key \in DOMAIN conversations :
        /\ key \in DOMAIN added
        /\ conversations[key].conversation_history = LastN(added[key], max_history)
        /\ Len(conversations[key].conversation_history) <= max_history

\* a key that was handed more than max_history messages
C7_Witness ==
    \E key \in DOMAIN conversations :
        key \in DOMAIN added /\ Len(added[key]) > max_history

\* C8: after _save_to_cache(k, v) stored v, _get_from_cache(k) returns v
\* while less than 3600 s have passed since the save and None from then on.
C8_CacheRoundTrip ==
    (Delivered /\ lastTurn.trace.saved) =>
        \E got \in {get_from_cache(TRUE, redis_store, lastTurn.trace.cache_key,
                                   clock, FALSE)} :
            /\ clock - lastTurn.at < CACHE_TTL =>
                  got.found /\ got.value = lastTurn.trace.fresh
            /\ clock - lastTurn.at >= CACHE_TTL => ~got.found

\* a non-empty list was stored and its TTL has run out; the same list is read
\* back in the states before
C8_Witness ==
    /\ Delivered /\ lastTurn.trace.saved /\ lastTurn.trace.fresh # <<>>
    /\ clock - lastTurn.at >= CACHE_TTL

\* C9: without a cache backend, or when the backend raises on GET or on
\* SETEX, _get_recommendations recomputes: retrieval runs, its result is what
\* the turn delivers, and the turn is not an error.
CacheDegraded(turn) ==
    \/ ~turn.client
    \/ turn.fault = "cache_get"
    \/ turn.fault = "cache_set" /\ ~turn.trace.cache_hit

C9_CacheFailureRecomputes ==
    (Delivered /\ lastTurn.fault \in {"none"} \cup CacheFaults
        /\ CacheDegraded(lastTurn)) =>
        /\ ~lastTurn.raised /\ ~lastTurn.caught
        /\ lastTurn.response.intent # "error"
        /\ lastTurn.trace.reached_cache /\ ~lastTurn.trace.cache_hit
        /\ lastTurn.trace.search_calls =
              (IF lastTurn.response.intent \in {"search_restaurant", "search_event"}
               THEN 1 ELSE IF lastTurn.response.intent = "general_query" THEN 2 ELSE 0)
        /\ lastTurn.response.recommendations = lastTurn.trace.fresh
        /\ ~lastTurn.client => redis_store = {}

\* the backend raised on GET for a key it holds, and retrieval ran again
C9_Witness ==
    /\ Delivered /\ lastTurn.fault = "cache_get"
    /\ lastTurn.response.recommendations # <<>>
    /\ \E e \in redis_store : e.key = lastTurn.trace.cache_key /\ e.expireAt > lastTurn.at
    /\ prevTurn.n > 0 /\ prevTurn.trace.cache_key = lastTurn.trace.cache_key

\* a turn that resolved to a search intent, followed in the same session by a
\* turn whose query holds no keyword of any intent rule
CarryoverTurn ==
    /\ prevTurn.n > 0
    /\ lastTurn.key = prevTurn.key
    /\ prevTurn.fault = "none" /\ lastTurn.fault = "none"
    /\ prevTurn.response.intent \in {"search_restaurant", "search_event"}
    /\ lastTurn.keyword_hits = 0

\* C17: the second of two sequential turns of one session, a carry-over
\* query that matches no rule of its own, resolves to the intent of the first
C17_CarryoverKeepsIntent ==
    CarryoverTurn => lastTurn.response.intent = prevTurn.response.intent

\* C19: get_context_summary is a read-only projection: a call for any
\* (user_id, session_id), a pair never seen before included, leaves the
\* conversation store as it was, keys and contents.
C19_SummaryLeavesStoreUnchanged ==
    [][(\E u \in UserIds, s \in SessionIds : GetContextSummary(u, s))
          => conversations' = conversations]_vars

\* a turn whose _get_recommendations call was reached
ReachedLookup == lastTurn.n > 0 /\ lastTurn.trace.reached_cache

\* the context of the last turn's session as it is now
ContextNow == conversations[lastTurn.key]

\* the history after add_message appended the user message of the last turn
HistoryWithUserMessage ==
    LET appended == Append(lastTurn.context_before.conversation_history,
                           UserMessage(lastTurn.query))
    IN IF Len(appended) > max_history THEN TruncateHistory(appended) ELSE appended

RetrievedRestaurants ==
    SelectSeq(lastTurn.trace.fresh, LAMBDA r : r.category # "event")

\* the cuisines extract_entities found in the last turn's query
RequestedCuisines == SeqToSet(lastTurn.trace.cache_key.entities.cuisine)

\* C22: when the analysis carries a cuisine entity, every restaurant that
\* _search_restaurants returns has a category holding a requested cuisine,
\* whatever its menu score.
C22_CuisineFilterIsHard ==
    (lastTurn.n > 0 /\ RequestedCuisines # {}) =>
        \A i \in DOMAIN RetrievedRestaurants :
            RetrievedRestaurants[i].category \in RequestedCuisines

\* a retrieval with a cuisine entity that returned restaurants while the
\* catalog holds a restaurant of another cuisine
C22_Witness ==
    /\ lastTurn.n > 0 /\ RequestedCuisines # {}
    /\ lastTurn.trace.search_calls > 0
    /\ RetrievedRestaurants # <<>>
    /\ \E i \in DOMAIN BackendCompanies :
          BackendCompanies[i].category \notin RequestedCuisines

\* the last turn looked up the key under which the turn before it stored an
\* empty list, before that entry expired
EmptyListCached ==
    /\ prevTurn.n > 0 /\ lastTurn.trace.reached_cache
    /\ prevTurn.trace.saved /\ prevTurn.trace.fresh = <<>>
    /\ lastTurn.trace.cache_key = prevTurn.trace.cache_key
    /\ lastTurn.at - prevTurn.at < CACHE_TTL
    /\ lastTurn.fault \notin CacheFaults

\* the turns that _get_recommendations answered from the cache
HitTurns == {t \in {prevTurn, lastTurn} : t.n > 0 /\ t.trace.cache_hit}

\* C26: a cache hit of _get_recommendations never yields an empty list: a
\* stored empty result counts as a miss, so the next request with its key
\* runs retrieval again, and cache_hits is not incremented for it.
C26_EmptyEntryIsMiss ==
    /\ \A t \in HitTurns :
          /\ t.trace.search_calls = 0
          /\ t.caught \/ t.response.recommendations # <<>>
    /\ EmptyListCached =>
          /\ ~lastTurn.trace.cache_hit
          /\ lastTurn.trace.search_calls
                = FreshRecommendations(lastTurn.trace.cache_key.intent,
                                       lastTurn.trace.cache_key.entities,
                                       lastTurn.trace.lookup_context,
                                       lastTurn.fault = "retrieve").calls
    /\ (turnCount = Cardinality({t \in {prevTurn, lastTurn} : t.n > 0}))
          => performance_metrics.cache_hits = Cardinality(HitTurns)

\* a failed retrieval stored its empty list, and the next turn asked for
\* the same key and retrieved again
C26_Witness ==
    /\ EmptyListCached
    /\ prevTurn.fault = "retrieve" /\ lastTurn.fault = "none"
    /\ lastTurn.trace.search_calls > 0
    /\ lastTurn.trace.fresh # <<>>

\* C27: a process_query turn that ends in the degraded error response leaves
\* the session's context as it found it: conversation_history,
\* current_intent and search_history are the same after the turn as before.
C27_ErrorTurnLeavesContext ==
    (lastTurn.n > 0 /\ lastTurn.caught /\ lastTurn.response = ErrorResponse) =>
        /\ ContextNow.conversation_history
              = lastTurn.context_before.conversation_history
        /\ ContextNow.current_intent = lastTurn.context_before.current_intent
        /\ ContextNow.search_history = lastTurn.context_before.search_history

-----------------------------------------------------------------------------
(* Properties of the context keys, checked under SpecAnyIds *)

\* the turns made so far under the pair, while lastTurn and prevTurn hold
\* every turn made
TurnsUnder(user_id, session_id) ==
    {t \in {prevTurn, lastTurn} :
        t.n > 0 /\ t.user_id = user_id /\ t.session_id = session_id}

AllTurnsRecorded == turnCount = Cardinality({t \in {prevTurn, lastTurn} : t.n > 0})

\* C24: distinct (user_id, session_id) pairs have distinct contexts: the
\* summary of a pair under which no turn was made shows no query, whatever
\* turns were made under other pairs.
C24_PairsAreIsolated ==
    AllTurnsRecorded =>
        \A u \in AnyUserIds, s \in AnySessionIds :
            TurnsUnder(u, s) = {} =>
                get_context_summary(conversations, u, s).recent_queries = <<>>

-----------------------------------------------------------------------------
(* Properties of stored preferences, checked under SpecPreferences *)

\* the cuisine the session of the last turn had stored when the turn began
StoredCuisine == lastTurn.context_before.user_preferences.cuisine

\* C25: the recommendations delivered to a session whose stored preferences
\* hold a cuisine satisfy it: every restaurant delivered is of that cuisine,
\* also when the list comes from the result cache.
C25_PreferenceHonoured ==
    (lastTurn.n > 0 /\ ~lastTurn.caught /\ StoredCuisine # "None") =>
        \A i \in DOMAIN lastTurn.response.recommendations :
            lastTurn.response.recommendations[i].category \in {StoredCuisine, "event"}

-----------------------------------------------------------------------------
(* Properties of concurrent add_message calls, checked under SpecMemory *)

\* all interleavings of two sequences that keep the order inside each
RECURSIVE Merges(_, _)
Merges(a, b) ==
    IF a = <<>> THEN {b}
    ELSE IF b = <<>> THEN {a}
    ELSE {<<Head(a)>> \o m : m \in Merges(Tail(a), b)}
            \cup {<<Head(b)>> \o m : m \in Merges(a, Tail(b))}

\* the messages thread t has added once it is done
MessagesOf(t) == [k \in 1..OpsPerThread |-> ThreadMessage(t, k)]

AllThreadsDone == \A t \in Threads : pc[t] = "idle" /\ ops_done[t] = OpsPerThread

\* the histories that the calls of the two threads leave when they run one
\* after the other, in any order that keeps each thread's own order
SequentialHistories ==
    {LastN(m, max_history) : m \in Merges(MessagesOf("A"), MessagesOf("B"))}

\* C4, first part: whatever the interleaving of concurrent add_message calls
\* on one key, the history they leave is one that some sequential order of
\* the calls produces: no appended message is lost.
C4_Serialized == AllThreadsDone => mem_history \in SequentialHistories

\* C4, second part: no reader observes the history between an append and
\* its truncation, that is, longer than max_history.
C4_NoPartialObservation == Len(observed) <= max_history

-----------------------------------------------------------------------------
(* Properties of the catalog and its searches, checked under SpecCatalog *)

SearchReturned == last_search.n > 0

\* C5: a search that ran beside a refresh_data call read its restaurant list,
\* its event list and its embedding matrices from one refresh generation
C5_OneGenerationPerSearch ==
    (SearchReturned /\ last_search.overlapped) => Cardinality(last_search.gens) <= 1

\* a refresh_data call has returned after both of its fetches failed
RefreshFailed ==
    /\ refresh.pc = "idle"
    /\ refresh.gen > 1
    /\ refresh.companies = "fail"
    /\ refresh.events = "fail"

\* C6: after a refresh_data call whose fetches failed, the restaurants and the
\* events held are exactly those held before the call
C6_FailedRefreshKeepsSnapshot ==
    RefreshFailed => ItemsOf(data_cache) = ItemsOf(refresh.before)

NoDuplicateIds(results) ==
    \A i, j \in DOMAIN results : results[i].item.id = results[j].item.id => i = j

\* C10: the merged list a search returns for a catalog type (search_all, and
\* the 'restaurants' and 'events' modes of /search) holds no item id twice
C10_MergedHasNoDuplicateIds ==
    SearchReturned => /\ NoDuplicateIds(last_search.restaurants)
                      /\ NoDuplicateIds(last_search.events)

CatalogTypes == {"restaurants", "events"}

SearchAllReturned == SearchReturned /\ last_search.mode = "all"

Maximum(a, b) == IF a >= b THEN a ELSE b

\* C11: an item that search_all found by the semantic path and by the keyword
\* path is kept with the higher of the two paths' scores
C11_KeptScoreIsMaximum ==
    SearchAllReturned =>
        \A type \in CatalogTypes :
            \A i \in DOMAIN last_search[type] :
            \A j \in DOMAIN last_search.semantic[type] :
            \A k \in DOMAIN last_search.keyword[type] :
                (/\ last_search.semantic[type][j].item.id = last_search[type][i].item.id
                 /\ last_search.keyword[type][k].item.id = last_search[type][i].item.id)
                => last_search[type][i].value =
                      Maximum(last_search.semantic[type][j].value,
                              last_search.keyword[type][k].value)

\* C12: the merged list search_all returns for each catalog type is sorted
\* by descending score
C12_MergedSortedDescending ==
    SearchAllReturned =>
        \A type \in CatalogTypes :
            \A i \in DOMAIN last_search[type] :
                i < Len(last_search[type])
                => last_search[type][i].value >= last_search[type][i + 1].value

\* C13: every item keyword_search returns has an overlap ratio
\* |query words /\ item words| / |query words| of at least 0.3
C13_KeywordAboveThreshold ==
    SearchReturned =>
        \A type \in CatalogTypes :
            \A i \in DOMAIN last_search.keyword[type] :
                100 * Cardinality(MatchingWords(last_search.query,
                                                last_search.keyword[type][i].item))
                >= SIMILARITY_THRESHOLD
                      * Cardinality(SeqToSet(normalize_text(last_search.query)))

\* no word of the query occurs in any item of the list
DisjointFromAll(query, items) ==
    \A i \in DOMAIN items : MatchingWords(query, items[i]) = {}

\* C14: a keyword_search call whose query shares no word with any item of the
\* list it searched, the empty list included, returned the empty list, and
\* the request was served
C14_DisjointQueryFindsNothing ==
    SearchReturned =>
        \A type \in CatalogTypes :
            DisjointFromAll(last_search.query, last_search.kw_items[type])
            => last_search.keyword[type] = <<>>

\* search_all ran "concert" against restaurants that share no word with it
\* and against an empty event list
C14_Witness ==
    /\ SearchAllReturned
    /\ last_search.kw_items.restaurants # <<>>
    /\ DisjointFromAll(last_search.query, last_search.kw_items.restaurants)
    /\ last_search.kw_items.events = <<>>
    /\ last_search.keyword = NoResults

\* C15: for a catalog type whose semantic path was unavailable or raised,
\* search_all returns exactly the keyword results, which hold no id twice and
\* at most max_results entries
C15_KeywordResultsSurvive ==
    SearchAllReturned =>
        \A type \in CatalogTypes :
            last_search.semantic_failed[type] =>
                /\ last_search.semantic[type] = <<>>
                /\ last_search[type] = last_search.keyword[type]
                /\ NoDuplicateIds(last_search[type])
                /\ Len(last_search[type]) <= max_results

\* with a model loaded, the semantic path raised for restaurants and the
\* keyword path found some, while the semantic path delivered events
C15_Witness ==
    /\ SearchAllReturned
    /\ embedding_model
    /\ last_search.semantic_failed.restaurants
    /\ last_search.keyword.restaurants # <<>>
    /\ ~last_search.semantic_failed.events
    /\ last_search.semantic.events # <<>>

-----------------------------------------------------------------------------
(* Properties of the intent classifiers, checked under SpecClassify *)

\* the rule-hit counts of analyze_query and of classify_intent for the query
EngineScores == [i \in DOMAIN IntentOrder |-> IntentScore(IntentOrder[i], cls_query)]
BackendScores ==
    [i \in DOMAIN backend_intent_patterns |-> BackendIntentScore(i, cls_query)]

\* the intents whose count is strictly higher than every other intent's
StrictWinners(scores, names) ==
    {names[i] : i \in {k \in DOMAIN scores :
                         \A j \in DOMAIN scores \ {k} : scores[j] < scores[k]}}

\* C16: a classifier returns a non-general intent only if that intent's
\* rule-hit count is strictly higher than every other intent's, and returns
\* general when the highest count is shared or all counts are zero
C16_StrictWinnerOrGeneral ==
    /\ cls_result.engine # "pending" =>
          IF StrictWinners(EngineScores, IntentOrder) = {}
          THEN cls_result.engine = "general_query"
          ELSE cls_result.engine \in StrictWinners(EngineScores, IntentOrder)
    /\ cls_result.backend # "pending" =>
          IF StrictWinners(BackendScores,
                           [i \in DOMAIN backend_intent_patterns |->
                               backend_intent_patterns[i].intent]) = {}
          THEN cls_result.backend = "general"
          ELSE cls_result.backend
                  \in StrictWinners(BackendScores,
                                    [i \in DOMAIN backend_intent_patterns |->
                                        backend_intent_patterns[i].intent])

-----------------------------------------------------------------------------
(* Properties of the normalisers, checked under SpecNormalize *)

\* C18: normalising a normalised string changes nothing, for normalize_query
\* and for normalize_text, and a query and its normalised form get the same
\* cache key
C18_NormalizeIdempotent ==
    /\ \A i \in DOMAIN norm_out : norm_out[i] = norm_out[1]
    /\ (norm_fn = "normalize_text" /\ norm_out # <<>>)
          => get_cache_key("search", norm_input) = get_cache_key("search", norm_out[1])

\* a string that a normaliser changed into a non-empty one, normalised again
C18_Witness ==
    /\ Len(norm_out) >= 2
    /\ norm_out[1] # norm_input
    /\ norm_out[1] # <<>>
    /\ \E i \in DOMAIN norm_input : norm_input[i] \in {"a_breve", "A_BREVE", "fi"}
    /\ \E i \in DOMAIN norm_input : IsSpaceChar(norm_input[i])

-----------------------------------------------------------------------------
(* Properties of POST /chat, checked under SpecChat *)

\* a query that is empty, all blanks, or longer than 1000 characters
RejectableQuery ==
    /\ HasQuery(chat_body)
    /\ \/ StrippedLength(chat_body.query) = 0
       \/ QueryLength(chat_body.query) > MAX_QUERY_LENGTH

\* C21: /chat answers an empty or all-blank query, and a query longer than
\* 1000 characters, with HTTP 400 and does not call the recommender for it.
C21_BadQueryRejected ==
    (chat_api # "none" /\ RejectableQuery) => chat_status = 400 /\ ~chat_invoked

-----------------------------------------------------------------------------
(* Properties of the response cache, checked under SpecResponses *)

\* C23: a cached response older than its TTL is absent for
\* get_cached_response, whether set_cached_response stored it in Redis or in
\* the in-memory dictionary.
C23_ExpiredResponseAbsent ==
    (opt_got.value # "None") =>
        /\ opt_saved[opt_got.key] >= 0
        /\ opt_got.at - opt_saved[opt_got.key] < RESPONSE_TTL

-----------------------------------------------------------------------------
(* Properties of /api/reset, checked under SpecReset *)

\* C28: once a reset of a key has completed, the context stored for it holds
\* only messages of turns that started after the reset, also when a turn of
\* the key was in flight while the reset ran.
C28_ResetDropsEarlierTurns ==
    \A i \in DOMAIN reset_context.history :
        reset_context.history[i].epoch >= resets_done

-----------------------------------------------------------------------------
(* Properties of SmartChatbot's refresh, checked under SpecBot *)

\* C29: get_chat_response refreshes the catalog on its first call and on
\* every call made more than 300 seconds after the last refresh, however
\* long the time since then, a day or more included.
C29_RefreshWhenStale ==
    (bot_call.n > 0 /\ (bot_call.found = -1 \/ bot_call.at - bot_call.found > REFRESH_AFTER))
        => bot_call.refreshed

-----------------------------------------------------------------------------
(* Properties of find_matches, checked under SpecMatch *)

\* the companies of company_data with a dish among the candidates that
\* passes is_relevant_match at the threshold
RelevantCompanies ==
    {fm_candidates[i].company_id : i \in
        {j \in DOMAIN fm_candidates :
            /\ fm_candidates[j].company_id \in CompanyIds
            /\ is_relevant_match(fm_query, fm_candidates[j].dish, MATCH_THRESHOLD)}}

\* C30: find_matches returns a company whenever the company is in
\* company_data and one of its dishes among the candidates passes
\* is_relevant_match; de-duplication per company suppresses no such company.
C30_RelevantCompanyReturned ==
    (fm_variant # "none") =>
        \A c \in RelevantCompanies :
            \E i \in DOMAIN fm_matches : fm_matches[i].company = c

====
